---------------------------- MODULE Spec2Model ----------------------------
(***************************************************************************)
(* Model of the pxobj object daemon: the per-node Store                    *)
(* (internal/objectd/store.go), the SigV4 verifier (internal/s3/sigv4.go), *)
(* the S3 and admin handlers, the Cluster (leader probe, proxy, quorum     *)
(* replication) and the replication endpoint.                              *)
(*                                                                         *)
(* Strings the code inspects character by character (bucket names, object  *)
(* keys, URL paths) are sequences of one-character strings.  SHA-256 and   *)
(* HMAC-SHA256 are uninterpreted injective functions of their inputs.      *)
(***************************************************************************)
EXTENDS Integers, Sequences, FiniteSets, TLC

VARIABLES
    store,      \* [Nodes -> node store]: in-memory metadata, metadata.json, content files
    now,        \* the wall clock read by time.Now()
    ids,        \* number of random ids drawn so far (content file names are fresh)
    reqs,       \* the HTTP exchanges in progress or just answered, with their event logs
    ret,        \* the result of the last completed call (Store API call or HTTP exchange)
    written,    \* history: payload of the last PutObject call per (bucket, key) on node 0
    nops        \* number of client calls issued so far

vars == <<store, now, ids, reqs, ret, written, nops>>

---------------------------------------------------------------------------
(* Bounds *)

MaxOps == 3         \* Store API calls issued in SpecStore
MaxClock == 2       \* clock ticks
MaxReqs == 2        \* client requests issued in SpecCluster
MaxHops == 2        \* handlers a request passes through (forwards + 1)

(* Program constants *)

Replicas == 3       \* cluster.Config.Replicas as deployed
MinBucketLen == 3
MaxBucketLen == 63

Nodes == 0 .. (Replicas - 1)

Nil == "nil"
None == <<"none">>

---------------------------------------------------------------------------
(* Finite maps *)

EmptyMap == [x \in {} |-> 0]

Range(sq) == {sq[i] : i \in DOMAIN sq}

MapPut(f, k, v) == [x \in (DOMAIN f) \cup {k} |-> IF x = k THEN v ELSE f[x]]

MapDrop(f, k) == [x \in (DOMAIN f) \ {k} |-> f[x]]

---------------------------------------------------------------------------
(* Input domains *)

BK1 == <<"b", "k", "1">>
BK2 == <<"b", "k", "2">>
BadName == <<"-", "b", "k">>

ValidNames == {BK1, BK2}
BucketNames == ValidNames \cup {BadName}

KeyK == <<"k">>
KeyQ == <<"k", "?", "x">>
Keys == {KeyK, KeyQ}

Payloads == {<<"h", "i">>, <<"y">>}

PXA == <<"P", "X", "A">>
PXB == <<"P", "X", "B">>
AccessKeys == {PXA, PXB}
Secrets == {"s1", "s2"}

IOFaults == {"ok", "mkdir", "create", "copy", "close", "persist", "remove"}

---------------------------------------------------------------------------
(* internal/objectd/store.go *)

AllowedChars ==
    {"a","b","c","d","e","f","g","h","i","j","k","l","m","n","o","p","q","r",
     "s","t","u","v","w","x","y","z","0","1","2","3","4","5","6","7","8","9",
     "-", "."}

(* a character outside ASCII: one rune, two bytes in UTF-8 *)
EAcute == "U+00E9"

(* len(name): the number of bytes *)
RECURSIVE ByteLen(_)
ByteLen(name) ==
    IF name = <<>> THEN 0
    ELSE (IF Head(name) = EAcute THEN 2 ELSE 1) + ByteLen(Tail(name))

(* validBucket without the test of the first and last character *)
validBucketAnyEdge(name) ==
    /\ ByteLen(name) >= MinBucketLen
    /\ ByteLen(name) <= MaxBucketLen
    /\ \A i \in 1 .. Len(name) : name[i] \in AllowedChars

validBucket(name) ==
    /\ ByteLen(name) >= MinBucketLen
    /\ ByteLen(name) <= MaxBucketLen
    /\ name[1] # "-"
    /\ name[Len(name)] # "-"
    /\ \A i \in 1 .. Len(name) : name[i] \in AllowedChars

(* hex.EncodeToString(sha256.Sum(v)): uninterpreted, injective *)
Sha256Hex(v) == <<"sha256", v>>

(* OpenStore on an empty data directory *)
OpenStore == [buckets |-> EmptyMap, disk |-> EmptyMap, files |-> EmptyMap]

(* persistLocked: write metadata.json.tmp, rename over metadata.json *)
persistLocked(st, io) ==
    IF io = "persist"
    THEN [st |-> st, err |-> "io"]
    ELSE [st |-> [st EXCEPT !.disk = st.buckets], err |-> Nil]

(* CreateBucket without the early return for an existing bucket *)
CreateBucketOverwrites(st, name, t, io) ==
    IF ~validBucket(name) THEN [st |-> st, err |-> "invalid bucket name"]
    ELSE LET b == [createdAt |-> t, objects |-> EmptyMap, access |-> EmptyMap]
             st1 == [st EXCEPT !.buckets = MapPut(st.buckets, name, b)]
         IN  IF io = "mkdir" THEN [st |-> st1, err |-> "io"]
             ELSE persistLocked(st1, io)

CreateBucket(st, name, t, io) ==
    IF ~validBucket(name) THEN [st |-> st, err |-> "invalid bucket name"]
    ELSE IF name \in DOMAIN st.buckets THEN [st |-> st, err |-> Nil]
    ELSE LET b == [createdAt |-> t, objects |-> EmptyMap, access |-> EmptyMap]
             st1 == [st EXCEPT !.buckets = MapPut(st.buckets, name, b)]
         IN  IF io = "mkdir" THEN [st |-> st1, err |-> "io"]
             ELSE persistLocked(st1, io)

(* os.RemoveAll(objects/<name>) *)
RemoveAll(files, name) ==
    [p \in {q \in DOMAIN files : q[1] # name} |-> files[p]]

(* DeleteBucket without the emptiness check *)
DeleteBucketForce(st, name, io) ==
    IF name \notin DOMAIN st.buckets THEN [st |-> st, err |-> "ErrNotFound"]
    ELSE LET st1 == [st EXCEPT !.buckets = MapDrop(st.buckets, name)]
             p == persistLocked(st1, io)
         IN  IF p.err # Nil THEN p
             ELSE IF io = "remove" THEN [st |-> p.st, err |-> "io"]
             ELSE [st |-> [p.st EXCEPT !.files = RemoveAll(p.st.files, name)],
                   err |-> Nil]

DeleteBucket(st, name, io) ==
    IF name \notin DOMAIN st.buckets THEN [st |-> st, err |-> "ErrNotFound"]
    ELSE IF DOMAIN st.buckets[name].objects # {}
         THEN [st |-> st, err |-> "bucket not empty"]
    ELSE LET st1 == [st EXCEPT !.buckets = MapDrop(st.buckets, name)]
             p == persistLocked(st1, io)
         IN  IF p.err # Nil THEN p
             ELSE IF io = "remove" THEN [st |-> p.st, err |-> "io"]
             ELSE [st |-> [p.st EXCEPT !.files = RemoveAll(p.st.files, name)],
                   err |-> Nil]

ListBuckets(st) == DOMAIN st.buckets

NoMeta == [size |-> 0, etag |-> None, modTime |-> 0, path |-> None]

(* PutObject that writes a replaced key's content into its existing file *)
PutObjectInPlace(st, bucket, key, body, id, t, io) ==
    IF bucket \notin DOMAIN st.buckets
    THEN [st |-> st, err |-> "ErrNotFound", meta |-> NoMeta]
    ELSE IF key = <<>> THEN [st |-> st, err |-> "empty key", meta |-> NoMeta]
    ELSE IF io \in {"mkdir", "create", "copy", "close"}
         THEN [st |-> st, err |-> "io", meta |-> NoMeta]
    ELSE LET b == st.buckets[bucket]
             path == IF key \in DOMAIN b.objects THEN b.objects[key].path
                     ELSE <<bucket, id>>
             rec == [size |-> Len(body), etag |-> Sha256Hex(body),
                     modTime |-> t, path |-> path]
             st1 == [st EXCEPT !.files = MapPut(st.files, path, body),
                               !.buckets[bucket].objects = MapPut(b.objects, key, rec)]
             p == persistLocked(st1, io)
         IN  IF p.err # Nil THEN [st |-> p.st, err |-> p.err, meta |-> NoMeta]
             ELSE [st |-> p.st, err |-> Nil, meta |-> rec]

(* PutObject that unlinks the new content file instead of the previous one *)
PutObjectUnlinksNew(st, bucket, key, body, id, t, io) ==
    IF bucket \notin DOMAIN st.buckets
    THEN [st |-> st, err |-> "ErrNotFound", meta |-> NoMeta]
    ELSE IF key = <<>> THEN [st |-> st, err |-> "empty key", meta |-> NoMeta]
    ELSE IF io \in {"mkdir", "create", "copy", "close"}
         THEN [st |-> st, err |-> "io", meta |-> NoMeta]
    ELSE LET path == <<bucket, id>>
             b == st.buckets[bucket]
             rec == [size |-> Len(body), etag |-> Sha256Hex(body),
                     modTime |-> t, path |-> path]
             files1 == MapPut(st.files, path, body)
             files2 == IF key \in DOMAIN b.objects /\ b.objects[key].path # path
                       THEN MapDrop(files1, path)
                       ELSE files1
             st1 == [st EXCEPT !.files = files2,
                               !.buckets[bucket].objects = MapPut(b.objects, key, rec)]
             p == persistLocked(st1, io)
         IN  IF p.err # Nil THEN [st |-> p.st, err |-> p.err, meta |-> NoMeta]
             ELSE [st |-> p.st, err |-> Nil, meta |-> rec]

PutObject(st, bucket, key, body, id, t, io) ==
    IF bucket \notin DOMAIN st.buckets
    THEN [st |-> st, err |-> "ErrNotFound", meta |-> NoMeta]
    ELSE IF key = <<>> THEN [st |-> st, err |-> "empty key", meta |-> NoMeta]
    ELSE IF io \in {"mkdir", "create"} THEN [st |-> st, err |-> "io", meta |-> NoMeta]
    \* a failed copy or close unlinks the file just created
    ELSE IF io \in {"copy", "close"} THEN [st |-> st, err |-> "io", meta |-> NoMeta]
    ELSE LET path == <<bucket, id>>
             b == st.buckets[bucket]
             rec == [size |-> Len(body), etag |-> Sha256Hex(body),
                     modTime |-> t, path |-> path]
             files1 == MapPut(st.files, path, body)
             files2 == IF key \in DOMAIN b.objects /\ b.objects[key].path # path
                       THEN MapDrop(files1, b.objects[key].path)
                       ELSE files1
             st1 == [st EXCEPT !.files = files2,
                               !.buckets[bucket].objects = MapPut(b.objects, key, rec)]
             p == persistLocked(st1, io)
         IN  IF p.err # Nil THEN [st |-> p.st, err |-> p.err, meta |-> NoMeta]
             ELSE [st |-> p.st, err |-> Nil, meta |-> rec]

GetObjectMeta(st, bucket, key) ==
    IF bucket \notin DOMAIN st.buckets THEN [err |-> "ErrNotFound", meta |-> NoMeta]
    ELSE IF key \notin DOMAIN st.buckets[bucket].objects
         THEN [err |-> "ErrNotFound", meta |-> NoMeta]
    ELSE [err |-> Nil, meta |-> st.buckets[bucket].objects[key]]

OpenObject(st, bucket, key) ==
    LET m == GetObjectMeta(st, bucket, key)
    IN  IF m.err # Nil THEN [err |-> m.err, meta |-> NoMeta, body |-> None]
        ELSE IF m.meta.path \notin DOMAIN st.files
             THEN [err |-> "ErrNotFound", meta |-> NoMeta, body |-> None]
        ELSE [err |-> Nil, meta |-> m.meta, body |-> st.files[m.meta.path]]

(* DeleteObject that reports a missing key as an error *)
DeleteObjectMissingFails(st, bucket, key, io) ==
    IF bucket \notin DOMAIN st.buckets THEN [st |-> st, err |-> "ErrNotFound"]
    ELSE IF key \notin DOMAIN st.buckets[bucket].objects
         THEN [st |-> st, err |-> "no such key"]
    ELSE LET rec == st.buckets[bucket].objects[key]
             st1 == [st EXCEPT !.buckets[bucket].objects = MapDrop(@, key)]
             p == persistLocked(st1, io)
         IN  IF p.err # Nil THEN p
             ELSE IF io = "remove" THEN p
             ELSE [st |-> [p.st EXCEPT !.files = MapDrop(@, rec.path)], err |-> Nil]

DeleteObject(st, bucket, key, io) ==
    IF bucket \notin DOMAIN st.buckets THEN [st |-> st, err |-> "ErrNotFound"]
    ELSE IF key \notin DOMAIN st.buckets[bucket].objects THEN [st |-> st, err |-> Nil]
    ELSE LET rec == st.buckets[bucket].objects[key]
             st1 == [st EXCEPT !.buckets[bucket].objects = MapDrop(@, key)]
             p == persistLocked(st1, io)
         IN  IF p.err # Nil THEN p
             ELSE IF io = "remove" THEN p
             ELSE [st |-> [p.st EXCEPT !.files = MapDrop(@, rec.path)], err |-> Nil]

putAccessLocked(st, a, io) ==
    IF a.bucket \notin DOMAIN st.buckets THEN [st |-> st, err |-> "ErrNotFound"]
    ELSE persistLocked(
           [st EXCEPT !.buckets[a.bucket].access =
               MapPut(@, a.accessKey, [secretKey |-> a.secretKey, readOnly |-> a.readOnly])],
           io)

PutAccess(st, a, io) == putAccessLocked(st, a, io)

NoAccess == [accessKey |-> None, secretKey |-> None, bucket |-> None, readOnly |-> FALSE]

(* ak, sk: the outcome of the two randomHex draws *)
CreateAccess(st, bucket, readOnly, ak, sk, io) ==
    IF bucket \notin DOMAIN st.buckets
    THEN [st |-> st, err |-> "ErrNotFound", access |-> NoAccess]
    ELSE LET a == [accessKey |-> ak, secretKey |-> sk, bucket |-> bucket,
                   readOnly |-> readOnly]
             p == putAccessLocked(st, a, io)
         IN  [st |-> p.st, err |-> p.err,
              access |-> IF p.err = Nil THEN a ELSE NoAccess]

(* the buckets whose access map holds accessKey *)
Holders(st, accessKey) ==
    {b \in DOMAIN st.buckets : accessKey \in DOMAIN st.buckets[b].access}

(* pick: the holder the map iteration meets first *)
DeleteAccess(st, accessKey, pick, io) ==
    IF Holders(st, accessKey) = {} THEN [st |-> st, err |-> Nil]
    ELSE persistLocked([st EXCEPT !.buckets[pick].access = MapDrop(@, accessKey)], io)

LookupAccessKey(st, accessKey, pick) ==
    IF Holders(st, accessKey) = {} THEN [err |-> "ErrNotFound", access |-> NoAccess]
    ELSE LET rec == st.buckets[pick].access[accessKey]
         IN  [err |-> Nil,
              access |-> [accessKey |-> accessKey, secretKey |-> rec.secretKey,
                          bucket |-> pick, readOnly |-> rec.readOnly]]

(* the holder met first by a map iteration; any holder when there are several *)
Picks(st, accessKey) ==
    IF Holders(st, accessKey) = {} THEN {None} ELSE Holders(st, accessKey)

---------------------------------------------------------------------------
(* Strings as character sequences: strings.TrimPrefix, strings.SplitN *)

(* index of the first element of s that lies in cs, 0 when there is none *)
IndexAny(s, cs) ==
    IF \E i \in 1 .. Len(s) : s[i] \in cs
    THEN CHOOSE i \in 1 .. Len(s) : s[i] \in cs /\ \A j \in 1 .. (i - 1) : s[j] \notin cs
    ELSE 0

HasPrefix(s, pre) == Len(s) >= Len(pre) /\ SubSeq(s, 1, Len(pre)) = pre

TrimPrefix(s, pre) == IF HasPrefix(s, pre) THEN SubSeq(s, Len(pre) + 1, Len(s)) ELSE s

(* strings.SplitN(s, "/", 2) *)
SplitN2(s) ==
    LET i == IndexAny(s, {"/"})
    IN  IF i = 0 THEN <<s>> ELSE <<SubSeq(s, 1, i - 1), SubSeq(s, i + 1, Len(s))>>

(* net/url.Parse applied to base + path: the path ends at the first '?' or '#' *)
URLPath(raw) ==
    LET i == IndexAny(raw, {"?", "#"})
    IN  IF i = 0 THEN raw ELSE SubSeq(raw, 1, i - 1)

HexDigits ==
    {"0", "1", "2", "3", "4", "5", "6", "7", "8", "9",
     "a", "b", "c", "d", "e", "f", "A", "B", "C", "D", "E", "F"}

(* http.NewRequestWithContext returns a request: url.Parse accepts the URL,
   which it does not when a '%' is not followed by two hexadecimal digits *)
NewRequestOK(raw) ==
    \A i \in 1 .. Len(raw) :
        raw[i] = "%" =>
            /\ i + 2 <= Len(raw)
            /\ raw[i + 1] \in HexDigits
            /\ raw[i + 2] \in HexDigits

(* net/url EscapedPath, per character, and its inverse as done by the server *)
EscapeChar(c) == IF c = "?" THEN "%3F" ELSE IF c = "#" THEN "%23" ELSE c

UnescapeChar(c) == IF c = "%3F" THEN "?" ELSE IF c = "%23" THEN "#" ELSE c

EscapedPath(p) == [i \in 1 .. Len(p) |-> EscapeChar(p[i])]

Unescape(p) == [i \in 1 .. Len(p) |-> UnescapeChar(p[i])]

---------------------------------------------------------------------------
(* internal/objectd/store.go: ListObjectsV2 *)

(* Go's string order on the characters the model uses, in byte order *)
Alphabet == <<"-", ".", "/", "0", "1", "2", "?", "a", "b", "c", "h", "i", "k", "x", "y">>

CharRank(c) == CHOOSE i \in 1 .. Len(Alphabet) : Alphabet[i] = c

(* s < t and s <= t as Go compares strings *)
StrLess(s, t) ==
    \E i \in 1 .. (Len(t)) :
        /\ \A j \in 1 .. (i - 1) : j <= Len(s) /\ s[j] = t[j]
        /\ \/ i = Len(s) + 1
           \/ i <= Len(s) /\ CharRank(s[i]) < CharRank(t[i])

StrLeq(s, t) == s = t \/ StrLess(s, t)

(* sort.Strings: the ascending sequence of the strings in K *)
RECURSIVE SortStrings(_)
SortStrings(K) ==
    IF K = {} THEN <<>>
    ELSE LET m == CHOOSE x \in K : \A y \in K : StrLeq(x, y)
         IN  <<m>> \o SortStrings(K \ {m})

DefaultMaxKeys == 1000

(* the page size ListObjectsV2 uses for a requested maxKeys *)
EffectiveMaxKeys(maxKeys) ==
    IF maxKeys <= 0 \/ maxKeys > DefaultMaxKeys THEN DefaultMaxKeys ELSE maxKeys

(* ListObjectsV2 whose next token is the first key after the page *)
ListObjectsV2NextAfter(st, bucket, prefix, token, maxKeys) ==
    IF bucket \notin DOMAIN st.buckets
    THEN [err |-> "ErrNotFound", keys |-> <<>>, next |-> <<>>, truncated |-> FALSE]
    ELSE LET b == st.buckets[bucket]
             mk == EffectiveMaxKeys(maxKeys)
             sorted == SortStrings({k \in DOMAIN b.objects : HasPrefix(k, prefix)})
             hits == {i \in 1 .. Len(sorted) : StrLeq(sorted[i], token)}
             start == IF token = <<>> \/ hits = {} THEN 0
                      ELSE CHOOSE i \in hits : \A j \in hits : j <= i
             rest == SubSeq(sorted, start + 1, Len(sorted))
         IN  IF Len(rest) > mk
             THEN [err |-> Nil, keys |-> SubSeq(rest, 1, mk), next |-> rest[mk + 1],
                   truncated |-> TRUE]
             ELSE [err |-> Nil, keys |-> rest, next |-> <<>>, truncated |-> FALSE]

(* ListObjectsV2: keys is the page, in order; the ObjectMeta of a key is its record *)
ListObjectsV2(st, bucket, prefix, token, maxKeys) ==
    IF bucket \notin DOMAIN st.buckets
    THEN [err |-> "ErrNotFound", keys |-> <<>>, next |-> <<>>, truncated |-> FALSE]
    ELSE LET b == st.buckets[bucket]
             mk == EffectiveMaxKeys(maxKeys)
             sorted == SortStrings({k \in DOMAIN b.objects : HasPrefix(k, prefix)})
             hits == {i \in 1 .. Len(sorted) : StrLeq(sorted[i], token)}
             start == IF token = <<>> \/ hits = {} THEN 0
                      ELSE CHOOSE i \in hits : \A j \in hits : j <= i
             rest == SubSeq(sorted, start + 1, Len(sorted))
         IN  IF Len(rest) > mk
             THEN [err |-> Nil, keys |-> SubSeq(rest, 1, mk), next |-> rest[mk],
                   truncated |-> TRUE]
             ELSE [err |-> Nil, keys |-> rest, next |-> <<>>, truncated |-> FALSE]

---------------------------------------------------------------------------
(* internal/s3/sigv4.go *)

hmacSHA256(key, data) == <<"hmac", key, data>>

NoSig == <<"nosig">>
NoCred == <<>>
NoAuth == [accessKey |-> None, bucket |-> None, readOnly |-> FALSE]
UnsignedPayload == "UNSIGNED-PAYLOAD"

encodePath(p) ==
    IF p = <<>> THEN <<"/">>
    ELSE IF p[1] # "/" THEN <<"/">> \o p
    ELSE p

(* the query is kept parsed: sorting and AWS-encoding of the pairs are not modelled *)
canonicalQuery(query) == query

HeaderValue(r, k) ==
    IF k = "host" THEN r.host
    ELSE IF k = "x-amz-date" THEN r.amzDate
    ELSE IF k = "x-amz-content-sha256" THEN r.contentSha
    ELSE ""

canonicalRequest(r, signed, payloadHash) ==
    <<r.method, encodePath(EscapedPath(r.path)), canonicalQuery(r.query),
      [k \in signed |-> HeaderValue(r, k)], signed, payloadHash>>

(* the four-step key derivation and the signature over the string to sign *)
Signature(secret, date, region, service, amzDate, canonReq) ==
    LET scope == <<date, region, service, "aws4_request">>
        strToSign == <<"AWS4-HMAC-SHA256", amzDate, scope, Sha256Hex(canonReq)>>
        kDate == hmacSHA256(<<"AWS4", secret>>, date)
        kRegion == hmacSHA256(kDate, region)
        kService == hmacSHA256(kRegion, service)
        kSign == hmacSHA256(kService, "aws4_request")
    IN  hmacSHA256(kSign, strToSign)

(* VerifySigV4 that skips the signature comparison *)
VerifySigV4NoCompare(r, st, pick) ==
    LET a == r.auth IN
    IF a.scheme # "AWS4-HMAC-SHA256" THEN [err |-> "missing auth", auth |-> NoAuth]
    ELSE IF a.cred = NoCred \/ a.signed = {} \/ a.sig = NoSig
         THEN [err |-> "malformed auth", auth |-> NoAuth]
    ELSE IF Len(a.cred) # 5 THEN [err |-> "bad credential scope", auth |-> NoAuth]
    ELSE IF a.cred[4] # "s3" THEN [err |-> "service must be s3", auth |-> NoAuth]
    ELSE IF r.amzDate = "" THEN [err |-> "missing x-amz-date", auth |-> NoAuth]
    ELSE LET l == LookupAccessKey(st, a.cred[1], pick) IN
         IF l.err # Nil THEN [err |-> "invalid access key", auth |-> NoAuth]
         ELSE [err |-> Nil,
               auth |-> [accessKey |-> a.cred[1], bucket |-> l.access.bucket,
                         readOnly |-> l.access.readOnly]]

(* pick: the bucket LookupAccessKey's map iteration meets first *)
VerifySigV4(r, st, pick) ==
    LET a == r.auth IN
    IF a.scheme # "AWS4-HMAC-SHA256" THEN [err |-> "missing auth", auth |-> NoAuth]
    ELSE IF a.cred = NoCred \/ a.signed = {} \/ a.sig = NoSig
         THEN [err |-> "malformed auth", auth |-> NoAuth]
    ELSE IF Len(a.cred) # 5 THEN [err |-> "bad credential scope", auth |-> NoAuth]
    ELSE IF a.cred[4] # "s3" THEN [err |-> "service must be s3", auth |-> NoAuth]
    ELSE IF r.amzDate = "" THEN [err |-> "missing x-amz-date", auth |-> NoAuth]
    ELSE LET payloadHash == IF r.contentSha = "" THEN UnsignedPayload ELSE r.contentSha
             l == LookupAccessKey(st, a.cred[1], pick)
         IN  IF l.err # Nil THEN [err |-> "invalid access key", auth |-> NoAuth]
             ELSE LET expected == Signature(l.access.secretKey, a.cred[2], a.cred[3],
                                            a.cred[4], r.amzDate,
                                            canonicalRequest(r, a.signed, payloadHash))
                  IN  IF expected # a.sig
                      THEN [err |-> "signature mismatch", auth |-> NoAuth]
                      ELSE [err |-> Nil,
                            auth |-> [accessKey |-> a.cred[1], bucket |-> l.access.bucket,
                                      readOnly |-> l.access.readOnly]]

---------------------------------------------------------------------------
(* internal/cluster/cluster.go: configuration and leader selection *)

Token == "token"

Enabled == Replicas > 1

(* Leader(): the first ordinal whose health probe succeeds, else ordinal 0;
   probes is the set of ordinals whose probe answered 200 during the call *)
RECURSIVE LeaderScan(_, _)
LeaderScan(i, probes) ==
    IF i >= Replicas THEN 0
    ELSE IF i \in probes THEN i
    ELSE LeaderScan(i + 1, probes)

(* Leader that keeps probing and returns the last ordinal that answered *)
LeaderHighest(probes) ==
    IF ~Enabled THEN 0
    ELSE IF probes \cap Nodes = {} THEN 0
    ELSE CHOOSE i \in probes \cap Nodes : \A j \in probes \cap Nodes : j <= i

Leader(probes) ==
    IF ~Enabled THEN 0
    ELSE LeaderScan(0, probes)

IsLeader(n, probes) == Leader(probes) = n

(* a quorum of every node *)
RequiredAll == Replicas

Required == (Replicas \div 2) + 1

(* the client certificate the peers present: the operator's leaf certificate *)
PeerCert == [certs |-> 1, verified |-> TRUE, eku |-> {"serverAuth", "clientAuth"}]
NoCert == [certs |-> 0, verified |-> FALSE, eku |-> {}]

ReplBuckets == "/_cluster/replicate/buckets/"
ReplObjects == "/_cluster/replicate/objects/"
ReplAccess == "/_cluster/replicate/access"
ReplAccessItem == "/_cluster/replicate/access/"

(* json.Marshal / json.Decode of a struct *)
JsonMarshal(v) == <<"json", v>>
JsonValid(b) == Len(b) = 2 /\ b[1] = "json"
JsonDecode(b) == b[2]

(* the request Replicate builds for one peer; the URL is parsed by
   http.NewRequestWithContext, so the peer sees URLPath(path) *)
ReplRequest(method, path, body) ==
    [method |-> method, path |-> URLPath(path), bearer |-> Token, marker |-> TRUE,
     tls |-> PeerCert, body |-> body, raw |-> path]

---------------------------------------------------------------------------
(* internal/s3/handler.go *)

NoCall == <<"nocall">>

Quote(etag) == <<"quoted", etag>>

S3Resp(st, status, code) ==
    [kind |-> "resp", st |-> st, status |-> status, code |-> code, etag |-> None,
     size |-> 0, body |-> None, call |-> NoCall, repl |-> None]

(* the handler committed locally and goes on to Replicate; status/etag are
   what it answers when the quorum is reached *)
S3Repl(st, status, etag, call, method, path, body) ==
    [kind |-> "repl", st |-> st, status |-> status, code |-> "", etag |-> etag,
     size |-> 0, body |-> None, call |-> call, repl |-> ReplRequest(method, path, body)]

S3Proxy(st) ==
    [kind |-> "proxy", st |-> st, status |-> 0, code |-> "", etag |-> None,
     size |-> 0, body |-> None, call |-> NoCall, repl |-> None]

splitPath(path) ==
    LET p == TrimPrefix(path, <<"/">>)
    IN  IF p = <<>> THEN <<<<>>, <<>>>>
        ELSE LET parts == SplitN2(p)
             IN  IF Len(parts) = 1 THEN <<parts[1], <<>>>> ELSE parts

(* every request that names a bucket counts as a mutation *)
isMutatingS3AnyMethod(method, bucket, key) == bucket # <<>>

isMutatingS3(method, bucket, key) ==
    \/ method = "PUT" /\ bucket # <<>>
    \/ method = "DELETE" /\ bucket # <<>>

(* a handler that never forwards *)
s3ShouldProxyNever(r, bucket, key, isLeader) == FALSE

s3ShouldProxyToLeader(r, bucket, key, isLeader) ==
    IF ~Enabled \/ r.marker THEN FALSE
    ELSE IF ~isMutatingS3(r.method, bucket, key) THEN FALSE
    ELSE ~isLeader

(* listBuckets without the filter on the credential's bucket *)
s3ListBucketsAll(st, allowedBucket) ==
    [S3Resp(st, 200, "") EXCEPT !.body = ListBuckets(st)]

s3ListBuckets(st, allowedBucket) ==
    [S3Resp(st, 200, "") EXCEPT
        !.body = {b \in ListBuckets(st) : allowedBucket = <<>> \/ b = allowedBucket}]

s3CreateBucket(st, bucket, t, io) ==
    LET c == CreateBucket(st, bucket, t, io) IN
    IF c.err # Nil THEN S3Resp(c.st, 400, "InvalidBucketName")
    ELSE IF Enabled
         THEN S3Repl(c.st, 200, None, <<"CreateBucket", bucket>>,
                     "POST", <<ReplBuckets>> \o bucket, None)
    ELSE S3Resp(c.st, 200, "")

s3DeleteBucket(st, bucket, io) ==
    LET c == DeleteBucket(st, bucket, io) IN
    IF c.err = "ErrNotFound" THEN S3Resp(c.st, 404, "NoSuchBucket")
    ELSE IF c.err # Nil THEN S3Resp(c.st, 409, "BucketNotEmpty")
    ELSE IF Enabled
         THEN S3Repl(c.st, 204, None, <<"DeleteBucket", bucket>>,
                     "DELETE", <<ReplBuckets>> \o bucket, None)
    ELSE S3Resp(c.st, 204, "")

s3PutObject(st, r, bucket, key, id, t, io) ==
    LET c == PutObject(st, bucket, key, r.body, id, t, io) IN
    IF c.err = "ErrNotFound" THEN S3Resp(c.st, 404, "NoSuchBucket")
    ELSE IF c.err # Nil THEN S3Resp(c.st, 500, "InternalError")
    ELSE IF Enabled
         THEN S3Repl(c.st, 200, Quote(c.meta.etag), <<"PutObject", bucket, key, r.body>>,
                     "PUT", <<ReplObjects>> \o bucket \o <<"/">> \o key, r.body)
    ELSE [S3Resp(c.st, 200, "") EXCEPT !.etag = Quote(c.meta.etag)]

(* r.URL.Query().Get(name): "" when the parameter is absent *)
QueryGet(query, name) == IF name \in DOMAIN query THEN query[name] ELSE <<>>

Digits == <<"0", "1", "2", "3", "4", "5", "6", "7", "8", "9">>

DigitVal(c) == (CHOOSE i \in 1 .. Len(Digits) : Digits[i] = c) - 1

RECURSIVE ParseDigits(_)
ParseDigits(ds) ==
    IF ds = <<>> THEN 0
    ELSE 10 * ParseDigits(SubSeq(ds, 1, Len(ds) - 1)) + DigitVal(ds[Len(ds)])

(* strconv.Atoi on a decimal string with an optional sign *)
Atoi(a) ==
    LET signed == a # <<>> /\ a[1] \in {"+", "-"}
        ds == IF signed THEN Tail(a) ELSE a
    IN  IF ds = <<>> \/ \E i \in DOMAIN ds : ds[i] \notin Range(Digits)
        THEN [ok |-> FALSE, v |-> 0]
        ELSE [ok |-> TRUE,
              v |-> IF signed /\ a[1] = "-" THEN 0 - ParseDigits(ds) ELSE ParseDigits(ds)]

s3ListObjectsV2(st, r, bucket) ==
    LET prefix == QueryGet(r.query, "prefix")
        token == QueryGet(r.query, "continuation-token")
        mk == QueryGet(r.query, "max-keys")
        maxKeys == IF mk # <<>> /\ Atoi(mk).ok THEN Atoi(mk).v ELSE DefaultMaxKeys
        l == ListObjectsV2(st, bucket, prefix, token, maxKeys)
    IN  IF l.err # Nil THEN S3Resp(st, 500, "InternalError")
        ELSE [S3Resp(st, 200, "") EXCEPT
                 !.body = [keys |-> l.keys, next |-> l.next, truncated |-> l.truncated,
                           prefix |-> prefix, maxKeys |-> maxKeys]]

(* getObject after OpenObject returned o: the error reply, or the headers
   from the metadata and io.Copy of the open file *)
getObjectWrite(st, o) ==
    IF o.err = "ErrNotFound" THEN S3Resp(st, 404, "NoSuchKey")
    ELSE IF o.err # Nil THEN S3Resp(st, 500, "InternalError")
    ELSE [S3Resp(st, 200, "") EXCEPT !.etag = Quote(o.meta.etag), !.size = o.meta.size,
                                     !.body = o.body]

s3GetObject(st, bucket, key) == getObjectWrite(st, OpenObject(st, bucket, key))

s3HeadObject(st, bucket, key) ==
    LET m == GetObjectMeta(st, bucket, key) IN
    IF m.err = "ErrNotFound" THEN S3Resp(st, 404, "NoSuchKey")
    ELSE IF m.err # Nil THEN S3Resp(st, 500, "InternalError")
    ELSE [S3Resp(st, 200, "") EXCEPT !.etag = Quote(m.meta.etag), !.size = m.meta.size]

s3DeleteObject(st, bucket, key, io) ==
    LET c == DeleteObject(st, bucket, key, io) IN
    IF c.err # Nil /\ c.err # "ErrNotFound" THEN S3Resp(c.st, 500, "InternalError")
    ELSE IF Enabled
         THEN S3Repl(c.st, 204, None, <<"DeleteObject", bucket, key>>,
                     "DELETE", <<ReplObjects>> \o bucket \o <<"/">> \o key, None)
    ELSE S3Resp(c.st, 204, "")

(* a handler without the bucket-scope check *)
bucketNotAllowedNever(auth, bucket) == FALSE

(* the credential's bound bucket differs from the bucket the request names *)
bucketNotAllowed(auth, bucket) == bucket # <<>> /\ auth.bucket # bucket

(* a handler without the read-only check *)
readOnlyDeniedNever(auth, method) == FALSE

(* a read-only credential on a PUT, POST or DELETE *)
readOnlyDenied(auth, method) == auth.readOnly /\ method \in {"PUT", "POST", "DELETE"}

(* Handler.ServeHTTP of the S3 surface on a node whose store is st.
   isLeader: the outcome of IsLeader() should the handler ask;
   pick, id, t, io: map iteration outcome, random id, clock, disk outcome *)
S3ServeHTTP(st, r, isLeader, pick, id, t, io) ==
    LET v == VerifySigV4(r, st, pick) IN
    IF v.err # Nil THEN S3Resp(st, 403, "AccessDenied")
    ELSE LET sp == splitPath(r.path)
             bucket == sp[1]
             key == sp[2]
         IN
         IF bucketNotAllowed(v.auth, bucket) THEN S3Resp(st, 403, "AccessDenied")
         ELSE IF readOnlyDenied(v.auth, r.method) THEN S3Resp(st, 403, "AccessDenied")
         ELSE IF s3ShouldProxyToLeader(r, bucket, key, isLeader) THEN S3Proxy(st)
         ELSE IF r.method = "GET" /\ bucket = <<>> /\ key = <<>>
              THEN s3ListBuckets(st, v.auth.bucket)
         ELSE IF r.method = "PUT" /\ bucket # <<>> /\ key = <<>>
              THEN s3CreateBucket(st, bucket, t, io)
         ELSE IF r.method = "DELETE" /\ bucket # <<>> /\ key = <<>>
              THEN s3DeleteBucket(st, bucket, io)
         ELSE IF /\ r.method = "GET" /\ bucket # <<>> /\ key = <<>>
                 /\ QueryGet(r.query, "list-type") = <<"2">>
              THEN s3ListObjectsV2(st, r, bucket)
         ELSE IF r.method = "PUT" /\ bucket # <<>> /\ key # <<>>
              THEN s3PutObject(st, r, bucket, key, id, t, io)
         ELSE IF r.method = "GET" /\ bucket # <<>> /\ key # <<>>
              THEN s3GetObject(st, bucket, key)
         ELSE IF r.method = "HEAD" /\ bucket # <<>> /\ key # <<>>
              THEN s3HeadObject(st, bucket, key)
         ELSE IF r.method = "DELETE" /\ bucket # <<>> /\ key # <<>>
              THEN s3DeleteObject(st, bucket, key, io)
         ELSE S3Resp(st, 501, "NotImplemented")

---------------------------------------------------------------------------
(* internal/admin/handler.go *)

AdminBuckets == "/admin/buckets"
AdminBucketsItem == "/admin/buckets/"
AdminAccess == "/admin/access"
AdminAccessItem == "/admin/access/"

adminShouldProxyToLeader(r, isLeader) ==
    IF ~Enabled \/ r.marker THEN FALSE
    ELSE IF r.method # "POST" /\ r.method # "DELETE" THEN FALSE
    ELSE ~isLeader

adminCreateBucket(st, r, t, io) ==
    IF ~JsonValid(r.body) \/ "name" \notin DOMAIN JsonDecode(r.body)
    THEN S3Resp(st, 400, "invalid body")
    ELSE LET name == JsonDecode(r.body).name
             c == CreateBucket(st, name, t, io)
         IN  IF name = <<>> THEN S3Resp(st, 400, "invalid body")
             ELSE IF c.err # Nil THEN S3Resp(c.st, 400, c.err)
             ELSE IF Enabled
                  THEN S3Repl(c.st, 201, None, <<"CreateBucket", name>>,
                              "POST", <<ReplBuckets>> \o name, None)
             ELSE S3Resp(c.st, 201, "")

adminDeleteBucket(st, r, io) ==
    LET name == TrimPrefix(r.path, <<AdminBucketsItem>>)
        c == DeleteBucket(st, name, io)
    IN  IF name = <<>> THEN S3Resp(st, 400, "missing bucket")
        ELSE IF c.err = "ErrNotFound" THEN S3Resp(c.st, 404, "not found")
        ELSE IF c.err # Nil THEN S3Resp(c.st, 409, c.err)
        ELSE IF Enabled
             THEN S3Repl(c.st, 204, None, <<"DeleteBucket", name>>,
                         "DELETE", <<ReplBuckets>> \o name, None)
        ELSE S3Resp(c.st, 204, "")

(* ak, sk: the access key and secret CreateAccess draws *)
adminCreateAccess(st, r, ak, sk, io) ==
    IF ~JsonValid(r.body) \/ "bucket" \notin DOMAIN JsonDecode(r.body)
    THEN S3Resp(st, 400, "invalid body")
    ELSE LET req == JsonDecode(r.body)
             c == CreateAccess(st, req.bucket, req.readOnly, ak, sk, io)
         IN  IF req.bucket = <<>> THEN S3Resp(st, 400, "invalid body")
             ELSE IF c.err # Nil THEN S3Resp(c.st, 400, c.err)
             ELSE IF Enabled
                  THEN [S3Repl(c.st, 200, None, <<"PutAccess", c.access>>,
                               "POST", <<ReplAccess>>, JsonMarshal(c.access))
                        EXCEPT !.body = JsonMarshal(c.access)]
             ELSE [S3Resp(c.st, 200, "") EXCEPT !.body = JsonMarshal(c.access)]

adminDeleteAccess(st, r, pick, io) ==
    LET accessKey == TrimPrefix(r.path, <<AdminAccessItem>>)
        c == DeleteAccess(st, accessKey, pick, io)
    IN  IF accessKey = <<>> THEN S3Resp(st, 400, "missing access key")
        ELSE IF c.err # Nil THEN S3Resp(c.st, 500, c.err)
        ELSE IF Enabled
             THEN S3Repl(c.st, 204, None, <<"DeleteAccess", accessKey>>,
                         "DELETE", <<ReplAccessItem>> \o accessKey, None)
        ELSE S3Resp(c.st, 204, "")

(* the admin surface without the bearer check *)
AdminServeHTTPNoAuth(st, r, isLeader, pick, ak, sk, t, io) ==
    IF adminShouldProxyToLeader(r, isLeader) THEN S3Proxy(st)
    ELSE IF r.method = "POST" /\ r.path = <<AdminBuckets>>
         THEN adminCreateBucket(st, r, t, io)
    ELSE IF r.method = "DELETE" /\ HasPrefix(r.path, <<AdminBucketsItem>>)
         THEN adminDeleteBucket(st, r, io)
    ELSE IF r.method = "POST" /\ r.path = <<AdminAccess>>
         THEN adminCreateAccess(st, r, ak, sk, io)
    ELSE IF r.method = "DELETE" /\ HasPrefix(r.path, <<AdminAccessItem>>)
         THEN adminDeleteAccess(st, r, pick, io)
    ELSE S3Resp(st, 404, "404 page not found")

(* Handler.ServeHTTP of the admin surface; r.bearer is what the
   Authorization header carries after "Bearer ", "" when there is no header *)
AdminServeHTTP(st, r, isLeader, pick, ak, sk, t, io) ==
    IF r.bearer # Token THEN S3Resp(st, 401, "unauthorized")
    ELSE IF adminShouldProxyToLeader(r, isLeader) THEN S3Proxy(st)
    ELSE IF r.method = "POST" /\ r.path = <<AdminBuckets>>
         THEN adminCreateBucket(st, r, t, io)
    ELSE IF r.method = "DELETE" /\ HasPrefix(r.path, <<AdminBucketsItem>>)
         THEN adminDeleteBucket(st, r, io)
    ELSE IF r.method = "POST" /\ r.path = <<AdminAccess>>
         THEN adminCreateAccess(st, r, ak, sk, io)
    ELSE IF r.method = "DELETE" /\ HasPrefix(r.path, <<AdminAccessItem>>)
         THEN adminDeleteAccess(st, r, pick, io)
    ELSE S3Resp(st, 404, "404 page not found")

---------------------------------------------------------------------------
(* ReplicationHandler (internal/cluster) *)

ReplHealth == "/_cluster/health"

hasClientAuthUsage(cert) == "clientAuth" \in cert.eku

(* eku = {} stands for a nil ExtKeyUsage *)
hasPeerClientCert(r) ==
    IF r.tls.certs = 0 THEN FALSE
    ELSE IF ~r.tls.verified THEN FALSE
    ELSE r.tls.eku = {} \/ hasClientAuthUsage(r.tls)

ReplResp(st, status, body, call) == [st |-> st, status |-> status, body |-> body, call |-> call]

(* the route switch of ReplicationHandler.ServeHTTP *)
replRoute(st, r, pick, id, t, io) ==
    IF r.method = "POST" /\ HasPrefix(r.path, <<ReplBuckets>>)
         THEN LET name == TrimPrefix(r.path, <<ReplBuckets>>)
                  c == CreateBucket(st, name, t, io)
              IN  IF c.err # Nil THEN ReplResp(c.st, 400, c.err, NoCall)
                  ELSE ReplResp(c.st, 204, "", <<"CreateBucket", name>>)
    ELSE IF r.method = "DELETE" /\ HasPrefix(r.path, <<ReplBuckets>>)
         THEN LET name == TrimPrefix(r.path, <<ReplBuckets>>)
                  c == DeleteBucket(st, name, io)
              IN  IF c.err # Nil /\ c.err # "ErrNotFound"
                  THEN ReplResp(c.st, 409, c.err, NoCall)
                  ELSE ReplResp(c.st, 204, "", <<"DeleteBucket", name>>)
    ELSE IF r.method = "PUT" /\ HasPrefix(r.path, <<ReplObjects>>)
         THEN LET parts == SplitN2(TrimPrefix(r.path, <<ReplObjects>>))
                  c == PutObject(st, parts[1], parts[2], r.body, id, t, io)
              IN  IF Len(parts) # 2 THEN ReplResp(st, 400, "invalid path", NoCall)
                  ELSE IF c.err # Nil THEN ReplResp(c.st, 400, c.err, NoCall)
                  ELSE ReplResp(c.st, 204, "", <<"PutObject", parts[1], parts[2], r.body>>)
    ELSE IF r.method = "DELETE" /\ HasPrefix(r.path, <<ReplObjects>>)
         THEN LET parts == SplitN2(TrimPrefix(r.path, <<ReplObjects>>))
                  c == DeleteObject(st, parts[1], parts[2], io)
              IN  IF Len(parts) # 2 THEN ReplResp(st, 400, "invalid path", NoCall)
                  ELSE IF c.err # Nil /\ c.err # "ErrNotFound"
                       THEN ReplResp(c.st, 400, c.err, NoCall)
                  ELSE ReplResp(c.st, 204, "", <<"DeleteObject", parts[1], parts[2]>>)
    ELSE IF r.method = "POST" /\ r.path = <<ReplAccess>>
         THEN IF ~JsonValid(r.body) THEN ReplResp(st, 400, "invalid body", NoCall)
              ELSE LET a == JsonDecode(r.body)
                       c == PutAccess(st, a, io)
                   IN  IF c.err # Nil THEN ReplResp(c.st, 400, c.err, NoCall)
                       ELSE ReplResp(c.st, 204, "", <<"PutAccess", a>>)
    ELSE IF r.method = "DELETE" /\ HasPrefix(r.path, <<ReplAccessItem>>)
         THEN LET ak == TrimPrefix(r.path, <<ReplAccessItem>>)
                  c == DeleteAccess(st, ak, pick, io)
              IN  IF c.err # Nil THEN ReplResp(c.st, 500, c.err, NoCall)
                  ELSE ReplResp(c.st, 204, "", <<"DeleteAccess", ak>>)
    ELSE ReplResp(st, 404, "404 page not found", NoCall)

(* ReplicationHandler without the client-certificate gate *)
ReplicationServeHTTPNoCert(st, r, pick, id, t, io) ==
    IF r.bearer # Token THEN ReplResp(st, 401, "unauthorized", NoCall)
    ELSE IF r.path = <<ReplHealth>> THEN ReplResp(st, 200, "ok", NoCall)
    ELSE IF ~r.marker THEN ReplResp(st, 403, "forbidden", NoCall)
    ELSE replRoute(st, r, pick, id, t, io)

(* a replication handler that replicates what it received to the other nodes *)
ReplOnwardPeers(p, r) == [i \in 1 .. (Replicas - 1) |-> (p + i) % Replicas]

(* the nodes ReplicationHandler.ServeHTTP on ordinal p sends a request to
   while it handles r: the handler holds the Store and the token, and calls
   neither Replicate nor ProxyToLeader *)
ReplOnward(p, r) == <<>>

ReplicationServeHTTP(st, r, pick, id, t, io) ==
    IF r.bearer # Token THEN ReplResp(st, 401, "unauthorized", NoCall)
    ELSE IF r.path = <<ReplHealth>> THEN ReplResp(st, 200, "ok", NoCall)
    ELSE IF ~r.marker THEN ReplResp(st, 403, "forbidden", NoCall)
    ELSE IF ~hasPeerClientCert(r) THEN ReplResp(st, 403, "mTLS required", NoCall)
    ELSE replRoute(st, r, pick, id, t, io)

---------------------------------------------------------------------------
(* SpecStore: the Store API called on one node (node 0), one call at a time *)

NoWritten == [b \in ValidNames |-> [k \in Keys |-> None]]

InitCommon ==
    /\ store = [n \in Nodes |-> OpenStore]
    /\ now = 0
    /\ ids = 0
    /\ reqs = <<>>
    /\ written = NoWritten
    /\ nops = 0

InitStore ==
    /\ InitCommon
    /\ ret = [op |-> "OpenStore", err |-> Nil]

Tick ==
    /\ now < MaxClock
    /\ now' = now + 1
    /\ UNCHANGED <<store, ids, reqs, ret, written, nops>>

StoreCall(st1) ==
    /\ nops < MaxOps
    /\ nops' = nops + 1
    /\ store' = [store EXCEPT ![0] = st1]
    /\ UNCHANGED <<now, reqs>>

DoCreateBucket ==
    \E name \in BucketNames, io \in {"ok", "mkdir", "persist"} :
        LET r == CreateBucket(store[0], name, now, io) IN
        /\ StoreCall(r.st)
        /\ ret' = [op |-> "CreateBucket", bucket |-> name, err |-> r.err]
        /\ UNCHANGED <<ids, written>>

DoDeleteBucket ==
    \E name \in ValidNames, io \in {"ok", "persist", "remove"} :
        LET r == DeleteBucket(store[0], name, io) IN
        /\ StoreCall(r.st)
        /\ ret' = [op |-> "DeleteBucket", bucket |-> name, err |-> r.err]
        /\ UNCHANGED <<ids, written>>

DoPutObject ==
    \E b \in ValidNames, k \in Keys \cup {<<>>}, v \in Payloads,
       io \in {"ok", "create", "copy", "persist"} :
        LET r == PutObject(store[0], b, k, v, ids, now, io) IN
        /\ StoreCall(r.st)
        /\ ids' = ids + 1
        /\ ret' = [op |-> "PutObject", bucket |-> b, key |-> k, body |-> v,
                   err |-> r.err, meta |-> r.meta]
        /\ written' = IF k \in Keys
                      THEN [written EXCEPT ![b][k] = IF r.err = Nil THEN v ELSE None]
                      ELSE written

DoOpenObject ==
    \E b \in ValidNames, k \in Keys :
        LET r == OpenObject(store[0], b, k) IN
        /\ StoreCall(store[0])
        /\ ret' = [op |-> "OpenObject", bucket |-> b, key |-> k, err |-> r.err,
                   meta |-> r.meta, body |-> r.body]
        /\ UNCHANGED <<ids, written>>

DoDeleteObject ==
    \E b \in ValidNames, k \in Keys, io \in {"ok", "persist", "remove"} :
        LET r == DeleteObject(store[0], b, k, io) IN
        /\ StoreCall(r.st)
        /\ ret' = [op |-> "DeleteObject", bucket |-> b, key |-> k, err |-> r.err]
        /\ written' = [written EXCEPT ![b][k] = None]
        /\ UNCHANGED ids

DoCreateAccess ==
    \E b \in ValidNames, ro \in BOOLEAN, ak \in AccessKeys, sk \in Secrets,
       io \in {"ok", "persist"} :
        LET r == CreateAccess(store[0], b, ro, ak, sk, io) IN
        /\ Holders(store[0], ak) = {}
        /\ StoreCall(r.st)
        /\ ret' = [op |-> "CreateAccess", bucket |-> b, err |-> r.err, access |-> r.access]
        /\ UNCHANGED <<ids, written>>

DoDeleteAccess ==
    \E ak \in AccessKeys, io \in {"ok", "persist"} :
      \E pick \in Picks(store[0], ak) :
        LET r == DeleteAccess(store[0], ak, pick, io) IN
        /\ StoreCall(r.st)
        /\ ret' = [op |-> "DeleteAccess", accessKey |-> ak, err |-> r.err]
        /\ UNCHANGED <<ids, written>>

NextStore ==
    \/ Tick
    \/ DoCreateBucket
    \/ DoDeleteBucket
    \/ DoPutObject
    \/ DoOpenObject
    \/ DoDeleteObject
    \/ DoCreateAccess
    \/ DoDeleteAccess

SpecStore == InitStore /\ [][NextStore]_vars

(* C9: after PutObject(b,k,v) succeeds and before any later write or delete
   of (b,k), GetObject(b,k) returns the bytes v, size Len(v) and the ETag
   hex(SHA-256(v)). *)
C9_PutGetRoundTrip ==
    \A b \in ValidNames, k \in Keys :
        written[b][k] # None =>
            LET r == OpenObject(store[0], b, k) IN
            /\ r.err = Nil
            /\ r.body = written[b][k]
            /\ r.meta.size = Len(written[b][k])
            /\ r.meta.etag = Sha256Hex(written[b][k])

(* an object was replaced by a put of a different payload and read back *)
C9_Witness ==
    /\ ret.op = "PutObject" /\ ret.err = Nil /\ ret.key \in Keys
    /\ written[ret.bucket][ret.key] = ret.body
    /\ Cardinality(DOMAIN store[0].files) = 1
    /\ ids = 2
    /\ OpenObject(store[0], ret.bucket, ret.key).body = ret.body

(* C10: for a valid name b, the second of two consecutive CreateBucket(b)
   calls returns no error, b exists afterwards (once: buckets are keyed by
   name), and the call changes nothing: creation time, objects, access keys
   and the persisted document stay as they were. *)
C10_CreateBucketIdempotent ==
    [][ ( /\ nops' = nops + 1
          /\ ret.op = "CreateBucket" /\ ret'.op = "CreateBucket"
          /\ ret'.bucket = ret.bucket
          /\ validBucket(ret.bucket) )
        => ( /\ ret'.err = Nil
             /\ Cardinality({x \in ListBuckets(store'[0]) : x = ret.bucket}) = 1
             /\ store'[0] = store[0] ) ]_vars

(* CreateBucket(b) was called twice in a row, the second time at a later
   clock reading than the bucket's creation time *)
C10_Witness ==
    /\ ret.op = "CreateBucket" /\ ret.err = Nil
    /\ nops >= 2
    /\ DOMAIN store[0].buckets = {ret.bucket}
    /\ store[0].buckets[ret.bucket].createdAt < now
    /\ store[0].disk = store[0].buckets

(* C11: a bucket is destroyed only when it holds no objects. DeleteBucket on
   a bucket with at least one object fails, the S3 handler answers 409
   BucketNotEmpty, and the bucket, its objects, its access keys and the
   content files stay as they were. *)
C11_DeleteBucketNotEmpty ==
    [][ /\ ( /\ nops' = nops + 1
             /\ ret'.op = "DeleteBucket"
             /\ ret'.bucket \in DOMAIN store[0].buckets
             /\ DOMAIN store[0].buckets[ret'.bucket].objects # {} )
           => ( /\ ret'.err = "bucket not empty"
                /\ store' = store
                /\ \A io \in {"ok", "persist", "remove"} :
                      s3DeleteBucket(store[0], ret'.bucket, io)
                          = S3Resp(store[0], 409, "BucketNotEmpty") )
        /\ \A b \in DOMAIN store[0].buckets :
              b \notin DOMAIN store'[0].buckets
                 => DOMAIN store[0].buckets[b].objects = {} ]_vars

(* DeleteBucket was refused on a bucket that holds a readable object *)
C11_Witness ==
    /\ ret.op = "DeleteBucket" /\ ret.err = "bucket not empty"
    /\ ret.bucket \in DOMAIN store[0].buckets
    /\ \E k \in Keys : OpenObject(store[0], ret.bucket, k).err = Nil

---------------------------------------------------------------------------
(* A provisioned node: bucket bk1 with a read-write and a read-only access key,
   as left by CreateBucket and two access grants *)

AccessA == [accessKey |-> PXA, secretKey |-> "s1", bucket |-> BK1, readOnly |-> FALSE]
AccessB == [accessKey |-> PXB, secretKey |-> "s2", bucket |-> BK1, readOnly |-> TRUE]

Provisioned ==
    LET s1 == CreateBucket(OpenStore, BK1, 0, "ok").st
        s2 == PutAccess(s1, AccessA, "ok").st
    IN  PutAccess(s2, AccessB, "ok").st

(* S3 requests as a client builds them *)

StdSigned == {"host", "x-amz-content-sha256", "x-amz-date"}
AmzDate == "20240101T000000Z"
StdCred(ak) == <<ak, "20240101", "us-east-1", "s3", "aws4_request">>

Unsigned(method, path, cred, signed, amzDate, marker, body) ==
    [method |-> method, path |-> path, query |-> EmptyMap, host |-> "h:9000",
     amzDate |-> amzDate, contentSha |-> UnsignedPayload, marker |-> marker,
     body |-> body,
     auth |-> [scheme |-> "AWS4-HMAC-SHA256", cred |-> cred, signed |-> signed,
               sig |-> NoSig]]

(* the signature a client holding secret computes over r *)
ClientSig(r, secret) ==
    Signature(secret, "20240101", "us-east-1", "s3", r.amzDate,
              canonicalRequest(r, r.auth.signed, r.contentSha))

Signed(r, secret) == [r EXCEPT !.auth.sig = ClientSig(r, secret)]

S3Request(method, path, ak, secret, marker, body) ==
    Signed(Unsigned(method, path, StdCred(ak), StdSigned, AmzDate, marker, body), secret)

S3Path(bucket, key) ==
    <<"/">> \o bucket \o (IF key = <<>> THEN <<>> ELSE <<"/">> \o key)

---------------------------------------------------------------------------
(* SpecSig: VerifySigV4 and the S3 handler's use of it, on inputs that vary
   every field the verifier inspects *)

PXZ == <<"P", "X", "Z">>

SigCreds ==
    {NoCred, StdCred(PXA), StdCred(PXB), StdCred(PXZ),
     <<PXA, "20240101", "us-east-1", "s3">>,
     <<PXA, "20240101", "us-east-1", "ec2", "aws4_request">>,
     <<PXA, "20240101", "us-east-1", "s3", "other">>,
     <<PXA, "20240101", "us-east-1", "s3", "aws4_request", "x">>}

SigInputs ==
    LET bases == {Unsigned("PUT", S3Path(BK1, KeyK), c, sg, d, FALSE, <<"h", "i">>) :
                    c \in SigCreds, sg \in {{}, StdSigned}, d \in {"", AmzDate}}
        withSig(b) == {b} \cup {Signed(b, sk) : sk \in {"s1", "s2"}}
                          \cup {[b EXCEPT !.auth.sig = ClientSig([b EXCEPT !.method = "GET"], "s1")]}
        schemes(b) == {b, [b EXCEPT !.auth.scheme = "Bearer"]}
    IN  UNION {UNION {schemes(x) : x \in withSig(b)} : b \in bases}

InitSig ==
    /\ store = [n \in Nodes |-> Provisioned]
    /\ now = 0
    /\ ids = 0
    /\ reqs \in {<<r>> : r \in SigInputs}
    /\ ret = [op |-> "none"]
    /\ written = NoWritten
    /\ nops = 0

DoVerifySigV4 ==
    /\ nops = 0
    /\ \E pick \in Picks(store[0], IF reqs[1].auth.cred = NoCred THEN None
                                   ELSE reqs[1].auth.cred[1]) :
         LET v == VerifySigV4(reqs[1], store[0], pick)
             h == S3ServeHTTP(store[0], reqs[1], TRUE, pick, ids, now, "ok")
         IN  ret' = [op |-> "VerifySigV4", err |-> v.err, auth |-> v.auth,
                     status |-> h.status, code |-> h.code]
    /\ nops' = 1
    /\ UNCHANGED <<store, now, ids, reqs, written>>

NextSig == DoVerifySigV4

SpecSig == InitSig /\ [][NextSig]_vars

(* the conditions C8 lists, on request r against the access keys of st *)
SigAccepts(r, st) ==
    /\ r.auth.scheme = "AWS4-HMAC-SHA256"
    /\ r.auth.cred # NoCred /\ r.auth.signed # {} /\ r.auth.sig # NoSig
    /\ Len(r.auth.cred) = 5
    /\ r.auth.cred[4] = "s3"
    /\ r.amzDate # ""
    /\ \E b \in DOMAIN st.buckets :
         /\ r.auth.cred[1] \in DOMAIN st.buckets[b].access
         /\ r.auth.sig =
              hmacSHA256(
                hmacSHA256(hmacSHA256(hmacSHA256(hmacSHA256(
                    <<"AWS4", st.buckets[b].access[r.auth.cred[1]].secretKey>>,
                    r.auth.cred[2]), r.auth.cred[3]), "s3"), "aws4_request"),
                <<"AWS4-HMAC-SHA256", r.amzDate,
                  <<r.auth.cred[2], r.auth.cred[3], "s3", "aws4_request">>,
                  Sha256Hex(canonicalRequest(r, r.auth.signed,
                      IF r.contentSha = "" THEN UnsignedPayload ELSE r.contentSha))>>)

(* C8: VerifySigV4 succeeds exactly when the header has the AWS4-HMAC-SHA256
   form with Credential, SignedHeaders and Signature, the credential has 5
   components with service s3, X-Amz-Date is present, the access key resolves
   and the signature is hex(HMAC(signingKey, stringToSign)); then it returns
   the resolver's access key, bucket and read-only flag; otherwise the S3
   handler answers 403 AccessDenied. *)
C8_VerifySigV4 ==
    ret.op = "VerifySigV4" =>
        LET r == reqs[1]
            st == store[0]
        IN  /\ (ret.err = Nil) <=> SigAccepts(r, st)
            /\ ret.err = Nil =>
                 \E b \in DOMAIN st.buckets :
                    /\ r.auth.cred[1] \in DOMAIN st.buckets[b].access
                    /\ ret.auth = [accessKey |-> r.auth.cred[1], bucket |-> b,
                                   readOnly |-> st.buckets[b].access[r.auth.cred[1]].readOnly]
            /\ ret.err # Nil => ret.status = 403 /\ ret.code = "AccessDenied"

(* a correctly signed request of the read-only key was verified *)
C8_Witness ==
    /\ ret.op = "VerifySigV4" /\ ret.err = Nil
    /\ ret.auth = [accessKey |-> PXA, bucket |-> BK1, readOnly |-> FALSE]
    /\ ret.status = 200

---------------------------------------------------------------------------
(* SpecRepl: requests of any origin on the replication endpoint of node 0 *)

UnverifiedCert == [certs |-> 1, verified |-> FALSE, eku |-> {"clientAuth"}]
NoEkuCert == [certs |-> 1, verified |-> TRUE, eku |-> {}]
ServerOnlyCert == [certs |-> 1, verified |-> TRUE, eku |-> {"serverAuth"}]

TlsStates == {NoCert, PeerCert, UnverifiedCert, NoEkuCert, ServerOnlyCert}

AccessC == [accessKey |-> PXZ, secretKey |-> "s1", bucket |-> BK1, readOnly |-> FALSE]

(* method, path and body of the calls the endpoint routes *)
ReplCalls ==
    {<<"POST", <<ReplBuckets>> \o BK2, None>>,
     <<"DELETE", <<ReplBuckets>> \o BK2, None>>,
     <<"PUT", <<ReplObjects>> \o BK1 \o <<"/">> \o KeyK, <<"h", "i">>>>,
     <<"DELETE", <<ReplObjects>> \o BK1 \o <<"/">> \o KeyK, None>>,
     <<"POST", <<ReplAccess>>, JsonMarshal(AccessC)>>,
     <<"DELETE", <<ReplAccessItem>> \o PXA, None>>}

IsReplicateRoute(path) ==
    path # <<>> /\ path[1] \in {ReplBuckets, ReplObjects, ReplAccess, ReplAccessItem}

InitRepl ==
    /\ store = [n \in Nodes |-> Provisioned]
    /\ now = 0
    /\ ids = 0
    /\ reqs = <<>>
    /\ ret = [op |-> "none"]
    /\ written = NoWritten
    /\ nops = 0

DoReplication ==
    \E c \in ReplCalls, bearer \in {Token, "wrong", ""}, marker \in BOOLEAN,
       tls \in TlsStates :
        LET q == [method |-> c[1], path |-> c[2], bearer |-> bearer, marker |-> marker,
                  tls |-> tls, body |-> c[3]]
        IN  \E pick \in Picks(store[0], TrimPrefix(q.path, <<ReplAccessItem>>)) :
              LET h == ReplicationServeHTTP(store[0], q, pick, ids, now, "ok") IN
              /\ nops < MaxOps
              /\ nops' = nops + 1
              /\ ids' = ids + 1
              /\ store' = [store EXCEPT ![0] = h.st]
              /\ ret' = [op |-> "Replication", req |-> q, status |-> h.status,
                         body |-> h.body]
              /\ UNCHANGED <<now, reqs, written>>

DoHealth ==
    \E bearer \in {Token, "wrong"} :
        LET q == [method |-> "GET", path |-> <<ReplHealth>>, bearer |-> bearer,
                  marker |-> FALSE, tls |-> NoCert, body |-> None]
            h == ReplicationServeHTTP(store[0], q, None, ids, now, "ok")
        IN  /\ nops < MaxOps
            /\ nops' = nops + 1
            /\ store' = [store EXCEPT ![0] = h.st]
            /\ ret' = [op |-> "Replication", req |-> q, status |-> h.status,
                       body |-> h.body]
            /\ UNCHANGED <<now, ids, reqs, written>>

NextRepl == DoReplication \/ DoHealth

SpecRepl == InitRepl /\ [][NextRepl]_vars

(* C5: on a /_cluster/replicate/ route the Store changes only if the request
   carries the right bearer token, the internal-replication marker and a
   verified peer client certificate; a wrong bearer is answered 401, a missing
   marker 403, right bearer and marker without a client certificate 403 with
   body 'mTLS required'; a rejected request leaves the Store unchanged. *)
C5_ReplicationGate ==
    [][ (nops' = nops + 1 /\ IsReplicateRoute(ret'.req.path)) =>
        LET q == ret'.req IN
        /\ store' # store =>
             /\ q.bearer = Token /\ q.marker
             /\ q.tls.certs > 0 /\ q.tls.verified
        /\ q.bearer # Token => ret'.status = 401 /\ store' = store
        /\ (q.bearer = Token /\ ~q.marker) => ret'.status = 403 /\ store' = store
        /\ (q.bearer = Token /\ q.marker /\ q.tls.certs = 0) =>
             ret'.status = 403 /\ ret'.body = "mTLS required" /\ store' = store
        /\ ret'.status \in {401, 403} => store' = store ]_vars

(* a request with the right bearer and marker but no client certificate was
   rejected after an accepted peer request had changed the Store *)
C5_Witness ==
    /\ ret.op = "Replication" /\ IsReplicateRoute(ret.req.path)
    /\ ret.req.bearer = Token /\ ret.req.marker /\ ret.req.tls.certs = 0
    /\ ret.status = 403 /\ ret.body = "mTLS required"
    /\ store[0] # Provisioned

---------------------------------------------------------------------------
(* SpecCluster: a three-node cluster serving client requests one at a time.
   Every call a node makes to a peer (health probe, forwarded request,
   replication request) succeeds or fails by the environment's choice; a
   node's probe of itself succeeds. *)

(* credentials of a client: access key and the secret it signs with *)
CredA == <<PXA, "s1">>
CredB == <<PXB, "s2">>
CredBad == <<PXA, "s2">>

S3Req(method, bucket, key, cred, marker, body) ==
    S3Request(method, S3Path(bucket, key), cred[1], cred[2], marker, body)

(* GET /<bucket>?list-type=2 *)
S3ListReq(bucket, cred) ==
    Signed([Unsigned("GET", S3Path(bucket, <<>>), StdCred(cred[1]), StdSigned, AmzDate,
                     FALSE, None)
              EXCEPT !.query = MapPut(EmptyMap, "list-type", <<"2">>)], cred[2])

S3Menu ==
    {S3Req(m, BK1, KeyK, c, FALSE, IF m = "PUT" THEN <<"h", "i">> ELSE None) :
        m \in {"PUT", "POST", "DELETE", "GET", "HEAD"}, c \in {CredA, CredB}}
    \cup {S3Req(m, BK1, <<>>, c, FALSE, None) :
        m \in {"PUT", "DELETE"}, c \in {CredA, CredB}}
    \cup {S3Req(m, BK2, KeyK, CredA, FALSE, IF m = "PUT" THEN <<"h", "i">> ELSE None) :
        m \in {"PUT", "POST", "DELETE", "GET", "HEAD"}}
    \cup {S3Req(m, BK2, <<>>, CredA, FALSE, None) : m \in {"PUT", "DELETE", "GET"}}
    \cup {S3Req("PUT", BK1, KeyQ, CredA, FALSE, <<"h", "i">>),
          S3Req("PUT", BK1, KeyK, CredA, TRUE, <<"y">>),
          S3Req("PUT", BK1, KeyK, CredBad, FALSE, <<"h", "i">>),
          S3Req("GET", <<>>, <<>>, CredA, FALSE, None),
          S3ListReq(BK1, CredA)}

AdminReq(method, path, bearer, marker, body) ==
    [method |-> method, path |-> path, bearer |-> bearer, marker |-> marker, body |-> body]

AdminMenu ==
    {AdminReq("POST", <<AdminBuckets>>, Token, FALSE, JsonMarshal([name |-> BK2])),
     AdminReq("DELETE", <<AdminBucketsItem>> \o BK1, Token, FALSE, None),
     AdminReq("POST", <<AdminAccess>>, Token, FALSE,
              JsonMarshal([bucket |-> BK1, readOnly |-> FALSE])),
     AdminReq("DELETE", <<AdminAccessItem>> \o PXA, Token, FALSE, None),
     AdminReq("POST", <<AdminBuckets>>, "wrong", FALSE, JsonMarshal([name |-> BK2])),
     AdminReq("DELETE", <<AdminBucketsItem>> \o BK1, "", FALSE, None),
     AdminReq("POST", <<AdminBuckets>>, Token, TRUE, JsonMarshal([name |-> BK2])),
     AdminReq("GET", <<AdminBuckets>>, Token, FALSE, None)}

ClusterIO == {"ok"}

Last(sq) == sq[Len(sq)]

NextPeer(i, n) == IF i = n THEN i + 1 ELSE i

NoResp == [status |-> 0, code |-> "", etag |-> None, size |-> 0, body |-> None]

NewExchange(surface, r, n) ==
    [surface |-> surface, r |-> r, hops |-> <<n>>, pc |-> "recv", peer |-> 0,
     acks |-> 0, pend |-> None, resp |-> NoResp, served |-> NoResp, log |-> <<>>]

(* a relay that answers 200 whatever the target answered *)
ProxyRelayOK(resp) ==
    [status |-> 200, code |-> resp.code, etag |-> resp.etag, size |-> resp.size,
     body |-> resp.body]

(* ProxyToLeader's relay of the target's response: copyHeader, WriteHeader of
   the target's status, io.Copy of its body *)
ProxyRelay(resp) ==
    [status |-> resp.status, code |-> resp.code, etag |-> resp.etag, size |-> resp.size,
     body |-> resp.body]

(* the response after the k nodes that forwarded the request relayed it back *)
RECURSIVE RelayBack(_, _)
RelayBack(k, resp) == IF k = 0 THEN resp ELSE RelayBack(k - 1, ProxyRelay(resp))

(* the node at the end of x.hops wrote resp: the exchange is over and the
   client reads what comes back through the forwarding nodes *)
Answered(x, resp) ==
    [x EXCEPT !.pc = "done", !.served = resp,
              !.resp = RelayBack(Len(x.hops) - 1, resp)]

RespOf(h) ==
    [status |-> h.status, code |-> h.code, etag |-> h.etag, size |-> h.size,
     body |-> h.body]

InitCluster ==
    /\ store = [n \in Nodes |-> Provisioned]
    /\ now = 0
    /\ ids = 0
    /\ reqs = <<>>
    /\ ret = [op |-> "none"]
    /\ written = NoWritten
    /\ nops = 0

Idle == IF reqs = <<>> THEN TRUE ELSE reqs[1].pc = "done"

IssueS3 ==
    \E n \in Nodes, r \in S3Menu :
        /\ Idle
        /\ nops < MaxReqs
        /\ nops' = nops + 1
        /\ reqs' = <<NewExchange("s3", r, n)>>
        /\ UNCHANGED <<store, now, ids, ret, written>>

IssueAdmin ==
    \E n \in Nodes, r \in AdminMenu :
        /\ Idle
        /\ nops < MaxReqs
        /\ nops' = nops + 1
        /\ reqs' = <<NewExchange("admin", r, n)>>
        /\ UNCHANGED <<store, now, ids, ret, written>>

(* the state after the handler at node n returned h *)
Handled(x, n, h) ==
    /\ store' = [store EXCEPT ![n] = h.st]
    /\ ids' = IF h.st.files # store[n].files THEN ids + 1 ELSE ids
    /\ reqs' = << IF h.kind = "resp"
                  THEN [Answered(x, RespOf(h)) EXCEPT
                                 !.log = Append(@, <<"reply", n, h.status>>)]
                  ELSE IF h.kind = "proxy"
                  THEN [x EXCEPT !.pc = "proxy"]
                  ELSE [x EXCEPT !.pc = "repl", !.peer = NextPeer(0, n), !.acks = 1,
                                 !.pend = h,
                                 !.log = Append(@, <<"commit", n, h.call>>)] >>
    /\ UNCHANGED <<now, ret, written, nops>>

S3Picks(st, r) ==
    IF r.auth.cred = NoCred THEN {None} ELSE Picks(st, r.auth.cred[1])

RecvS3 ==
    /\ reqs # <<>> /\ reqs[1].pc = "recv" /\ reqs[1].surface = "s3"
    /\ LET x == reqs[1]
           n == Last(x.hops)
       IN  \E probes \in SUBSET Nodes, io \in ClusterIO :
             \E pick \in S3Picks(store[n], x.r) :
               /\ n \in probes
               /\ Handled(x, n, S3ServeHTTP(store[n], x.r, IsLeader(n, probes), pick,
                                            ids, now, io))

FreshKeys == {ak \in AccessKeys \cup {PXZ} : \A n \in Nodes : Holders(store[n], ak) = {}}

RecvAdmin ==
    /\ reqs # <<>> /\ reqs[1].pc = "recv" /\ reqs[1].surface = "admin"
    /\ LET x == reqs[1]
           n == Last(x.hops)
       IN  \E probes \in SUBSET Nodes, io \in ClusterIO, ak \in FreshKeys \cup {None},
              sk \in Secrets :
             \E pick \in Picks(store[n], TrimPrefix(x.r.path, <<AdminAccessItem>>)) :
               /\ n \in probes
               /\ (ak = None) = (FreshKeys = {})
               /\ Handled(x, n, AdminServeHTTP(store[n], x.r, IsLeader(n, probes), pick,
                                               ak, sk, now, io))

(* the request as the next node parses it: ProxyToLeader sends
   r.URL.RequestURI(), headers and Host unchanged *)
Forwarded(surface, r) ==
    IF surface = "s3" THEN [r EXCEPT !.path = Unescape(EscapedPath(r.path))] ELSE r

ProxyFailed(x, n, target) ==
    [Answered(x, [NoResp EXCEPT !.status = 503,
                                !.code = IF x.surface = "s3" THEN "InternalError"
                                         ELSE "proxy error"])
        EXCEPT !.log = @ \o << <<"proxy", n, target, FALSE>>, <<"reply", n, 503>> >>]

(* ProxyToLeader: a second Leader() call picks the target; the response of
   the target is relayed as it is *)
Proxy ==
    /\ reqs # <<>> /\ reqs[1].pc = "proxy"
    /\ LET x == reqs[1]
           n == Last(x.hops)
       IN  \E probes \in SUBSET Nodes, ok \in BOOLEAN :
             LET target == Leader(probes) IN
             /\ n \in probes
             /\ ok => Len(x.hops) < MaxHops
             /\ reqs' = << IF ok
                           THEN [x EXCEPT !.pc = "recv", !.hops = Append(@, target),
                                          !.r = Forwarded(x.surface, x.r),
                                          !.log = Append(@, <<"proxy", n, target, TRUE>>)]
                           ELSE ProxyFailed(x, n, target) >>
    /\ UNCHANGED <<store, now, ids, ret, written, nops>>

ReplPicks(st, r) == Picks(st, TrimPrefix(r.path, <<ReplAccessItem>>))

(* what the peer's handler sent on while it handled r *)
OnwardEvents(p, r) ==
    [i \in 1 .. Len(ReplOnward(p, r)) |-> <<"onward", p, ReplOnward(p, r)[i]>>]

(* one iteration of Replicate's loop: the call to ordinal x.peer *)
ReplStep ==
    /\ reqs # <<>> /\ reqs[1].pc = "repl" /\ reqs[1].peer < Replicas
    /\ LET x == reqs[1]
           n == Last(x.hops)
           p == x.peer
       IN  \E ok \in BOOLEAN, io \in ClusterIO :
             \E pick \in ReplPicks(store[p], x.pend.repl) :
               LET h == ReplicationServeHTTP(store[p], x.pend.repl, pick, ids, now, io)
                   \* no request leaves when NewRequestWithContext fails
                   sent == NewRequestOK(x.pend.repl.raw)
                   acked == sent /\ ok /\ h.status >= 200 /\ h.status < 300
               IN
               /\ store' = IF sent /\ ok THEN [store EXCEPT ![p] = h.st] ELSE store
               /\ ids' = IF sent /\ ok /\ h.st.files # store[p].files THEN ids + 1
                          ELSE ids
               /\ reqs' = << [x EXCEPT
                                !.peer = NextPeer(p + 1, n),
                                !.acks = IF acked THEN @ + 1 ELSE @,
                                !.log = IF ~sent THEN @
                                        ELSE IF ok
                                        THEN Append(@, <<"repl", n, p, h.status, h.call>>)
                                             \o OnwardEvents(p, x.pend.repl)
                                        ELSE Append(@, <<"repl", n, p, 0, NoCall>>)] >>
    /\ UNCHANGED <<now, ret, written, nops>>

(* the end of Replicate and the handler's answer *)
Reply ==
    /\ reqs # <<>> /\ reqs[1].pc = "repl" /\ reqs[1].peer >= Replicas
    /\ LET x == reqs[1]
           n == Last(x.hops)
           resp == IF x.acks < Required
                   THEN [NoResp EXCEPT !.status = 503,
                                       !.code = IF x.surface = "s3" THEN "InternalError"
                                                ELSE "replication quorum not reached"]
                   ELSE RespOf(x.pend)
       IN  reqs' = << [Answered(x, resp) EXCEPT
                                !.log = Append(@, <<"reply", n, resp.status>>)] >>
    /\ UNCHANGED <<store, now, ids, ret, written, nops>>

NextCluster ==
    \/ IssueS3
    \/ IssueAdmin
    \/ RecvS3
    \/ RecvAdmin
    \/ Proxy
    \/ ReplStep
    \/ Reply

SpecCluster == InitCluster /\ [][NextCluster]_vars

(* what the log of an exchange says *)

LogEvents(x, tag) == {x.log[i] : i \in {j \in DOMAIN x.log : x.log[j][1] = tag}}

Is2xx(status) == status >= 200 /\ status < 300

(* the replication calls that failed in transport / were acknowledged *)
PeersDown(x) == {e[3] : e \in {d \in LogEvents(x, "repl") : d[4] = 0}}
PeersAcked(x) == {e[3] : e \in {d \in LogEvents(x, "repl") : Is2xx(d[4])}}

Finished == IF reqs = <<>> THEN FALSE ELSE reqs[1].pc = "done"

(* the handler that answered committed locally and ran Replicate *)
Executed(x) == LogEvents(x, "commit") # {}

(* C2: with three replicas, a mutation executed by a node is answered with
   its success status when one peer was unreachable and the other
   acknowledged (1 local + 1 peer), and with 503 when both peers were
   unreachable, the executing node's Store then still holding the mutation. *)
C2_QuorumOfThree ==
    (Finished /\ Executed(reqs[1])) =>
        LET x == reqs[1]
            n == Last(x.hops)
        IN  /\ (Cardinality(PeersDown(x)) = 1 /\ Cardinality(PeersAcked(x)) = 1)
                  => (x.resp.status = x.pend.status /\ Is2xx(x.resp.status))
            /\ Cardinality(PeersDown(x)) = 2
                  => (x.resp.status = 503 /\ store[n] = x.pend.st)

(* node 0 put an object while both peers were unreachable: the client got
   503 and node 0 alone holds the object *)
C2_Witness ==
    /\ Finished /\ Executed(reqs[1])
    /\ reqs[1].hops = <<0>>
    /\ PeersDown(reqs[1]) = {1, 2}
    /\ reqs[1].resp.status = 503
    /\ OpenObject(store[0], BK1, KeyK).err = Nil
    /\ OpenObject(store[1], BK1, KeyK).err # Nil
    /\ OpenObject(store[2], BK1, KeyK).err # Nil

(* the Store call the answering handler committed, and the nodes whose
   Store executed that same call during the exchange *)
CommittedCall(x) == (CHOOSE e \in LogEvents(x, "commit") : TRUE)[3]

AppliedAt(x) ==
    {e[2] : e \in LogEvents(x, "commit")}
    \cup {e[3] : e \in {d \in LogEvents(x, "repl") : d[5] = CommittedCall(x)}}

(* C1: whenever a node answers a client mutation with a success status, it
   has applied the mutation to its own Store, and at least floor(N/2)+1
   nodes, itself included, had applied that mutation when the reply was
   sent. *)
C1_SuccessImpliesMajority ==
    (Finished /\ Executed(reqs[1]) /\ Is2xx(reqs[1].resp.status)) =>
        /\ Last(reqs[1].hops) \in AppliedAt(reqs[1])
        /\ Cardinality(AppliedAt(reqs[1])) >= Required

(* an un-marked S3 PUT of an object went to node hops[1], was forwarded once to
   the lower ordinal hops[2], and every call between these two nodes
   succeeded while every call to the third node failed: the third node is
   down, hops[2] is the leader and hops[1] is the follower *)
TwoUpFollowerPut(x) ==
    /\ x.surface = "s3" /\ x.r.method = "PUT" /\ ~x.r.marker
    /\ splitPath(x.r.path)[2] # <<>>
    /\ Len(x.hops) = 2 /\ x.hops[2] < x.hops[1]
    /\ LogEvents(x, "proxy") = {<<"proxy", x.hops[1], x.hops[2], TRUE>>}
    /\ \A e \in LogEvents(x, "repl") : (e[4] # 0) = (e[3] = x.hops[1])

(* the credential of r verifies on node n and the bucket it names exists there *)
ValidOn(r, n) ==
    /\ splitPath(r.path)[1] \in DOMAIN store[n].buckets
    /\ \A pick \in S3Picks(store[n], r) : VerifySigV4(r, store[n], pick).err = Nil

(* C4: with two of three nodes up and reachable from each other, an S3 PUT
   of an object with valid credentials sent to the node that is not the
   leader is answered 200, and afterwards both available nodes hold the
   object with the same ETag. *)
C4_FollowerPut ==
    (/\ Finished
     /\ TwoUpFollowerPut(reqs[1])
     /\ ValidOn(reqs[1].r, reqs[1].hops[1])
     /\ ValidOn(reqs[1].r, reqs[1].hops[2])) =>
        LET x == reqs[1]
            sp == splitPath(x.r.path)
            o1 == OpenObject(store[x.hops[1]], sp[1], sp[2])
            o2 == OpenObject(store[x.hops[2]], sp[1], sp[2])
        IN  /\ x.resp.status = 200
            /\ o1.err = Nil /\ o2.err = Nil
            /\ o1.meta.etag = o2.meta.etag

(* the S3 request r passes authentication and authorization on a node whose
   store is st *)
S3Authorized(r, st, pick) ==
    LET v == VerifySigV4(r, st, pick) IN
    /\ v.err = Nil
    /\ v.auth.bucket = splitPath(r.path)[1]
    /\ ~v.auth.readOnly

S3Mutating(r) == r.method \in {"PUT", "DELETE"} /\ splitPath(r.path)[1] # <<>>

AdminMutating(r) == r.method \in {"POST", "DELETE"}

(* the handler that is about to run answers an un-marked mutating request by
   forwarding if the node does not select itself as leader *)
NonLeaderForwards ==
    (reqs # <<>> /\ reqs[1].pc = "recv") =>
        LET r == reqs[1].r
            st == store[Last(reqs[1].hops)]
        IN  IF reqs[1].surface = "s3"
            THEN \A pick \in S3Picks(st, r) :
                    (S3Mutating(r) /\ ~r.marker /\ S3Authorized(r, st, pick))
                       => S3ServeHTTP(st, r, FALSE, pick, ids, now, "ok") = S3Proxy(st)
            ELSE (AdminMutating(r) /\ ~r.marker /\ r.bearer = Token)
                    => AdminServeHTTP(st, r, FALSE, None, PXZ, "s1", now, "ok") = S3Proxy(st)

(* a step of a handler that forwards: the decision to forward, or the
   forwarding itself *)
ForwardingStep ==
    /\ reqs # <<>> /\ reqs' # <<>>
    /\ \/ reqs[1].pc = "recv" /\ reqs'[1].pc = "proxy"
       \/ reqs[1].pc = "proxy"

(* C3: a node that does not select itself as leader and receives an
   un-marked mutating request (S3 PUT/DELETE on a bucket or key, admin
   POST/DELETE) forwards it to the leader it selects and stops: handling the
   request changes no Store and sends no replication request. *)
C3_NonLeaderForwardsAndStops ==
    /\ []NonLeaderForwards
    /\ [][ForwardingStep =>
             /\ store' = store
             /\ LogEvents(reqs'[1], "commit") = LogEvents(reqs[1], "commit")
             /\ LogEvents(reqs'[1], "repl") = LogEvents(reqs[1], "repl")
             /\ reqs[1].pc = "proxy" =>
                    \/ /\ reqs'[1].pc = "recv"
                       /\ Len(reqs'[1].hops) = Len(reqs[1].hops) + 1
                    \/ /\ reqs'[1].pc = "done" /\ reqs'[1].resp.status = 503]_vars

(* node 1 forwarded a PUT to node 0, which executed it and was acknowledged
   by node 2 only: the client got 200 and node 1's Store is as it was *)
C3_Witness ==
    /\ Finished
    /\ reqs[1].hops = <<1, 0>>
    /\ reqs[1].r.method = "PUT"
    /\ reqs[1].resp.status = 200
    /\ PeersDown(reqs[1]) = {1}
    /\ store[1] = Provisioned
    /\ OpenObject(store[0], BK1, KeyK).err = Nil

(* an S3 handler is about to run *)
S3Received == IF reqs = <<>> THEN FALSE
              ELSE reqs[1].pc = "recv" /\ reqs[1].surface = "s3"

(* the handler answered status/code at once: no Store changed, nothing was
   forwarded or replicated *)
AnsweredOnly(status, code) ==
    /\ reqs'[1].pc = "done"
    /\ reqs'[1].resp.status = status
    /\ reqs'[1].resp.code = code
    /\ store' = store
    /\ reqs'[1].log = Append(reqs[1].log, <<"reply", Last(reqs[1].hops), status>>)

(* r names a bucket and is signed with a credential that verifies on st and
   is bound to another bucket *)
ScopeMismatch(r, st) ==
    /\ splitPath(r.path)[1] # <<>>
    /\ \E pick \in S3Picks(st, r) :
          LET v == VerifySigV4(r, st, pick) IN
          v.err = Nil /\ v.auth.bucket # splitPath(r.path)[1]

(* C6: an S3 request that names bucket b2 and is signed with a credential
   bound to b1 # b2 is answered 403 AccessDenied whether or not b2 exists;
   handling it changes no Store and makes no proxy or replication call. *)
C6_BucketScope ==
    [][(S3Received /\ ScopeMismatch(reqs[1].r, store[Last(reqs[1].hops)]))
          => AnsweredOnly(403, "AccessDenied")]_vars

(* bucket bk2 exists on the node that denied a PUT into it by the credential
   bound to bk1 *)
C6_Witness ==
    /\ Finished
    /\ reqs[1].surface = "s3" /\ reqs[1].r.method = "PUT"
    /\ splitPath(reqs[1].r.path) = <<BK2, KeyK>>
    /\ BK2 \in DOMAIN store[Last(reqs[1].hops)].buckets
    /\ ScopeMismatch(reqs[1].r, store[Last(reqs[1].hops)])
    /\ reqs[1].resp.status = 403
    /\ OpenObject(store[Last(reqs[1].hops)], BK2, KeyK).err # Nil

(* r is signed with a read-only credential that verifies on st *)
ReadOnlyCredential(r, st) ==
    \E pick \in S3Picks(st, r) :
        LET v == VerifySigV4(r, st, pick) IN v.err = Nil /\ v.auth.readOnly

(* r reads an object that exists on st in the bucket its credential is bound to *)
ReadsExisting(r, st) ==
    /\ r.method \in {"GET", "HEAD"}
    /\ splitPath(r.path)[2] # <<>>
    /\ GetObjectMeta(st, splitPath(r.path)[1], splitPath(r.path)[2]).err = Nil
    /\ \A pick \in S3Picks(st, r) :
          VerifySigV4(r, st, pick).auth.bucket = splitPath(r.path)[1]

(* C7: a read-only credential receives 403 on every PUT, POST and DELETE,
   with no Store change, proxying or replication on any node, and 200 on GET
   and HEAD of an existing object in its bound bucket. *)
C7_ReadOnly ==
    [][(S3Received /\ ReadOnlyCredential(reqs[1].r, store[Last(reqs[1].hops)]))
          => /\ reqs[1].r.method \in {"PUT", "POST", "DELETE"}
                  => AnsweredOnly(403, "AccessDenied")
             /\ ReadsExisting(reqs[1].r, store[Last(reqs[1].hops)])
                  => AnsweredOnly(200, "")]_vars

(* the read-only credential read back an object put before *)
C7_Witness ==
    /\ Finished
    /\ reqs[1].surface = "s3" /\ reqs[1].r.method = "GET"
    /\ reqs[1].r.auth.cred[1] = PXB
    /\ reqs[1].resp.status = 200
    /\ reqs[1].resp.body = <<"h", "i">>

(* the replication requests of the exchange that went to ordinal p *)
ReplRequestsTo(x, p) ==
    {i \in DOMAIN x.log : IF x.log[i][1] = "repl" THEN x.log[i][3] = p ELSE FALSE}

(* C20: a node handling a request on the replication endpoint sends no
   request to another node, neither a replication request nor a forward to
   the leader, so in the exchange of one client mutation each peer receives
   at most one replication request. *)
C20_NoOnwardReplication ==
    reqs # <<>> =>
        /\ LogEvents(reqs[1], "onward") = {}
        /\ \A p \in Nodes : Cardinality(ReplRequestsTo(reqs[1], p)) <= 1

(* a mutation committed on node 0 whose replication request was applied by
   both peers, each of which received exactly one *)
C20_Witness ==
    /\ Finished
    /\ \E e \in LogEvents(reqs[1], "commit") : e[2] = 0
    /\ PeersAcked(reqs[1]) = {1, 2}
    /\ \A p \in {1, 2} : Cardinality(ReplRequestsTo(reqs[1], p)) = 1
    /\ \E e \in LogEvents(reqs[1], "repl") : e[5] # NoCall

(* C21: the client of a mutation that a follower forwarded receives the
   response of the node that handled it unchanged (status, headers, body),
   and 503 when the forwarding call could not reach its target. *)
C21_ProxyRelaysVerbatim ==
    Finished =>
        /\ (\E e \in LogEvents(reqs[1], "proxy") : e[4]) => reqs[1].resp = reqs[1].served
        /\ (\E e \in LogEvents(reqs[1], "proxy") : ~e[4]) => reqs[1].resp.status = 503

(* POST /admin/buckets sent to follower 1, forwarded to node 0, whose 201
   the client receives *)
C21_Witness ==
    /\ Finished
    /\ reqs[1].surface = "admin"
    /\ reqs[1].r.method = "POST"
    /\ reqs[1].r.path = <<AdminBuckets>>
    /\ reqs[1].hops = <<1, 0>>
    /\ \E e \in LogEvents(reqs[1], "commit") : e[2] = 0
    /\ reqs[1].served.status = 201
    /\ reqs[1].resp.status = 201

(* a read: GET or HEAD of an object, ListObjectsV2, ListBuckets *)
S3Read(r) == r.method \in {"GET", "HEAD"}

(* what the Store of node n holds for the object r names *)
LocalObject(n, r) == OpenObject(store[n], splitPath(r.path)[1], splitPath(r.path)[2])

(* C25: a node that receives an S3 read answers it itself from its own
   Store, leader or not: the request is not forwarded, no replication request
   is sent and no Store changes. *)
C25_ReadsServedLocally ==
    [][(S3Received /\ S3Read(reqs[1].r)) =>
          /\ reqs'[1].pc = "done"
          /\ reqs'[1].hops = reqs[1].hops
          /\ store' = store
          /\ reqs'[1].log = Append(reqs[1].log,
                                   <<"reply", Last(reqs[1].hops), reqs'[1].resp.status>>)
          /\ (reqs'[1].resp.status = 200 /\ splitPath(reqs[1].r.path)[2] # <<>>)
                => /\ LocalObject(Last(reqs[1].hops), reqs[1].r).err = Nil
                   /\ reqs[1].r.method = "GET" =>
                         reqs'[1].resp.body
                            = LocalObject(Last(reqs[1].hops), reqs[1].r).body]_vars

(* follower 2 answered a GET of an object from its own Store *)
C25_Witness ==
    /\ Finished
    /\ reqs[1].surface = "s3" /\ reqs[1].r.method = "GET"
    /\ reqs[1].r.path = S3Path(BK1, KeyK)
    /\ reqs[1].hops = <<2>>
    /\ reqs[1].resp.status = 200
    /\ reqs[1].resp.body = <<"h", "i">>
    /\ reqs[1].log = << <<"reply", 2, 200>> >>

AdminReceived == IF reqs = <<>> THEN FALSE
                 ELSE reqs[1].pc = "recv" /\ reqs[1].surface = "admin"

(* C26: an admin request without the Authorization header, or with one that
   differs from 'Bearer <token>', is answered 401 at once: no Store changes,
   it is not forwarded to the leader and no replication request is sent. *)
C26_AdminUnauthorized ==
    [][(AdminReceived /\ reqs[1].r.bearer # Token)
          => AnsweredOnly(401, "unauthorized")]_vars

(* follower 1 answered 401 to a DELETE without Authorization header *)
C26_Witness ==
    /\ Finished
    /\ reqs[1].surface = "admin"
    /\ reqs[1].r.method = "DELETE"
    /\ reqs[1].r.bearer = ""
    /\ reqs[1].hops = <<1>>
    /\ reqs[1].resp.status = 401
    /\ reqs[1].log = << <<"reply", 1, 401>> >>

(* the forwards of exchange x: the ProxyToLeader calls made for it *)
Forwards(x) == LogEvents(x, "proxy")

(* C34: a client mutation is forwarded by ProxyToLeader at most once,
   whatever the health probes of the nodes answer: the node a request was
   forwarded to handles it locally and does not call ProxyToLeader for it. *)
C34_ForwardedOnce ==
    \A i \in DOMAIN reqs :
        /\ Len(reqs[i].hops) >= 2 => reqs[i].pc # "proxy"
        /\ Cardinality(Forwards(reqs[i])) <= 1

(* what the handler of the node the request is at does with it when the
   node does not select itself as leader *)
AsNonLeader(x, pick) ==
    IF x.surface = "s3"
    THEN S3ServeHTTP(store[Last(x.hops)], x.r, FALSE, pick, ids, now, "ok")
    ELSE AdminServeHTTP(store[Last(x.hops)], x.r, FALSE, pick, PXZ, "s1", now, "ok")

HandlerPicks(x) ==
    IF x.surface = "s3" THEN S3Picks(store[Last(x.hops)], x.r)
    ELSE Picks(store[Last(x.hops)], TrimPrefix(x.r.path, <<AdminAccessItem>>))

(* the probe outcomes with which node n, answering its own probe, does not
   select itself as leader *)
NonLeaderViews(n) == {probes \in SUBSET Nodes : n \in probes /\ ~IsLeader(n, probes)}

(* C35: with the cluster enabled, a node that does not select itself as
   leader applies no mutation arriving on its S3 or admin surface to its own
   Store and originates no replication for it, whatever headers the request
   carries. *)
C35_OnlyLeaderApplies ==
    (reqs # <<>> /\ reqs[1].pc = "recv" /\ NonLeaderViews(Last(reqs[1].hops)) # {}) =>
        \A pick \in HandlerPicks(reqs[1]) :
            /\ AsNonLeader(reqs[1], pick).kind # "repl"
            /\ AsNonLeader(reqs[1], pick).st = store[Last(reqs[1].hops)]

(* node n authenticates an S3 request signed with the credential cred *)
Authenticates(n, cred) ==
    LET r == S3Req("GET", BK1, KeyK, cred, FALSE, None) IN
    \E pick \in S3Picks(store[n], r) : VerifySigV4(r, store[n], pick).err = Nil

DeleteAccessAnswered(x, ak, status) ==
    /\ x.pc = "done"
    /\ x.surface = "admin"
    /\ x.r.method = "DELETE"
    /\ x.r.path = <<AdminAccessItem>> \o ak
    /\ x.resp.status = status

(* C36: once an admin DELETE /admin/access/<ak> has been answered 204, no
   node of the cluster authenticates an S3 request signed with that access
   key, the nodes that were unreachable during the call included. *)
C36_DeletedKeyDeniedEverywhere ==
    (reqs # <<>> /\ DeleteAccessAnswered(reqs[1], PXA, 204)) =>
        \A n \in Nodes : ~Authenticates(n, CredA)

(* C37: between Store operations the in-memory metadata equals the last
   document written to metadata.json; a Store mutation that returned an error
   has left the in-memory buckets, objects and access keys as they were. *)
C37_MemoryMatchesDisk ==
    store[0].buckets = store[0].disk

---------------------------------------------------------------------------
(* SpecDelete: the delete handlers of the three surfaces run on one node
   (node 0), between puts and bucket creations. The status of an S3 or admin
   handler is the one it writes when Replicate returns no error. *)

(* a provisioned node that holds object k in bk1 *)
Stocked == PutObject(Provisioned, BK1, KeyK, <<"h", "i">>, 0, 0, "ok").st

InitDelete ==
    /\ store \in {[n \in Nodes |-> s] : s \in {Provisioned, Stocked}}
    /\ now = 0
    /\ ids = 1
    /\ reqs = <<>>
    /\ ret = [op |-> "none"]
    /\ written = NoWritten
    /\ nops = 0

(* the call before this one was the S3 delete of the same key *)
SameDelete(b, k) ==
    IF ret.op = "s3DeleteObject" THEN ret.bucket = b /\ ret.key = k ELSE FALSE

DoS3DeleteObject ==
    \E b \in ValidNames, k \in Keys, io \in {"ok", "persist", "remove"} :
        LET h == s3DeleteObject(store[0], b, k, io) IN
        /\ StoreCall(h.st)
        /\ ret' = [op |-> "s3DeleteObject", bucket |-> b, key |-> k, io |-> io,
                   status |-> h.status,
                   existed |-> GetObjectMeta(store[0], b, k).err = Nil,
                   prev |-> IF SameDelete(b, k) THEN <<ret.status, ret.existed>>
                            ELSE <<0, FALSE>>]
        /\ written' = [written EXCEPT ![b][k] = None]
        /\ UNCHANGED ids

DoAdminDeleteAccess ==
    \E ak \in AccessKeys \cup {PXZ}, io \in {"ok", "persist"} :
      \E pick \in Picks(store[0], ak) :
        LET h == adminDeleteAccess(store[0],
                     AdminReq("DELETE", <<AdminAccessItem>> \o ak, Token, FALSE, None),
                     pick, io)
        IN
        /\ StoreCall(h.st)
        /\ ret' = [op |-> "adminDeleteAccess", accessKey |-> ak, io |-> io,
                   status |-> h.status]
        /\ UNCHANGED <<ids, written>>

(* the replication DELETE requests a peer's Replicate sends *)
ReplDeletes ==
    {[kind |-> "bucket", bucket |-> b, key |-> <<>>, accessKey |-> None,
      req |-> ReplRequest("DELETE", <<ReplBuckets>> \o b, None)] : b \in ValidNames}
    \cup {[kind |-> "object", bucket |-> b, key |-> KeyK, accessKey |-> None,
           req |-> ReplRequest("DELETE", <<ReplObjects>> \o b \o <<"/">> \o KeyK, None)] :
             b \in ValidNames}
    \cup {[kind |-> "access", bucket |-> <<>>, key |-> <<>>, accessKey |-> ak,
           req |-> ReplRequest("DELETE", <<ReplAccessItem>> \o ak, None)] :
             ak \in AccessKeys \cup {PXZ}}

DoReplDelete ==
    \E d \in ReplDeletes, io \in {"ok", "persist", "remove"} :
      \E pick \in ReplPicks(store[0], d.req) :
        LET h == ReplicationServeHTTP(store[0], d.req, pick, ids, now, io) IN
        /\ StoreCall(h.st)
        /\ ret' = [op |-> "ReplDelete", kind |-> d.kind, bucket |-> d.bucket,
                   key |-> d.key, accessKey |-> d.accessKey, io |-> io,
                   status |-> h.status]
        /\ written' = IF d.kind = "object"
                      THEN [written EXCEPT ![d.bucket][d.key] = None] ELSE written
        /\ UNCHANGED ids

NextDelete ==
    \/ DoCreateBucket
    \/ DoPutObject
    \/ DoS3DeleteObject
    \/ DoAdminDeleteAccess
    \/ DoReplDelete

SpecDelete == InitDelete /\ [][NextDelete]_vars

(* s1 is s0 without object (b, k): every bucket, access key and other object
   of s0 is in s1 as it was, and s1 holds nothing more *)
SameExceptObject(s0, s1, b, k) ==
    /\ DOMAIN s1.buckets = DOMAIN s0.buckets
    /\ \A c \in DOMAIN s0.buckets :
          /\ s1.buckets[c].createdAt = s0.buckets[c].createdAt
          /\ s1.buckets[c].access = s0.buckets[c].access
          /\ DOMAIN s1.buckets[c].objects \subseteq DOMAIN s0.buckets[c].objects
          /\ \A k2 \in DOMAIN s0.buckets[c].objects :
                (c # b \/ k2 # k) =>
                    /\ k2 \in DOMAIN s1.buckets[c].objects
                    /\ OpenObject(s1, c, k2) = OpenObject(s0, c, k2)

(* the target of a replication DELETE is absent from st *)
TargetMissing(d, st) ==
    IF d.kind = "bucket" THEN d.bucket \notin DOMAIN st.buckets
    ELSE IF d.kind = "object" THEN GetObjectMeta(st, d.bucket, d.key).err # Nil
    ELSE Holders(st, d.accessKey) = {}

(* C12: deletes are idempotent. An S3 DeleteObject yields 204 and leaves the
   key absent, and repeated at once it yields 204 again; admin DeleteAccess
   of an unknown access key yields 204; a replication DELETE of a missing
   bucket, object or access key yields 204; none of them changes any other
   Store state. *)
C12_DeletesIdempotent ==
    [][ /\ (ret'.op = "s3DeleteObject" /\ ret'.io = "ok")
              => /\ ret'.status = 204
                 /\ GetObjectMeta(store'[0], ret'.bucket, ret'.key).err # Nil
                 /\ SameExceptObject(store[0], store'[0], ret'.bucket, ret'.key)
        /\ (ret'.op = "s3DeleteObject" /\ ret'.prev[1] = 204)
              => /\ ret'.status = 204
                 /\ GetObjectMeta(store'[0], ret'.bucket, ret'.key).err # Nil
                 /\ store' = store
        /\ (ret'.op = "adminDeleteAccess" /\ Holders(store[0], ret'.accessKey) = {})
              => (ret'.status = 204 /\ store' = store)
        /\ (ret'.op = "ReplDelete" /\ TargetMissing(ret', store[0]))
              => (ret'.status = 204 /\ store' = store) ]_vars

(* object k of bk1 was deleted through the S3 handler twice in a row, 204
   both times, the first delete having removed it *)
C12_Witness ==
    /\ ret.op = "s3DeleteObject" /\ ret.status = 204
    /\ ret.prev = <<204, TRUE>>
    /\ ret.bucket = BK1 /\ ret.key = KeyK
    /\ store[0] = Provisioned

---------------------------------------------------------------------------
(* SpecList: ListObjectsV2 called on one node whose bucket bk1 holds any
   subset of four keys; a listing started with an empty token can be
   continued page by page with the returned token. *)

ListKeys == {<<"a">>, <<"a", "b">>, <<"b">>, <<"c">>}
ListPrefixes == {<<>>, <<"a">>, <<"b">>}
ListTokens == {<<>>, <<"a">>, <<"a", "a">>, <<"b">>, <<"c">>}
ListMaxKeys == {-1, 0, 1, 2, 3, DefaultMaxKeys, DefaultMaxKeys + 1}

(* the store after putting every key of K into bk1 *)
RECURSIVE PutAll(_, _, _)
PutAll(st, K, id) ==
    IF K = {} THEN st
    ELSE LET k == CHOOSE x \in K : TRUE
         IN  PutAll(PutObject(st, BK1, k, <<"y">>, id, 0, "ok").st, K \ {k}, id + 1)

InitList ==
    /\ store \in {[n \in Nodes |-> PutAll(Provisioned, K, 0)] : K \in SUBSET ListKeys}
    /\ now = 0
    /\ ids = Cardinality(ListKeys)
    /\ reqs = <<>>
    /\ ret = [op |-> "none"]
    /\ written = NoWritten
    /\ nops = 0

DoListObjectsV2 ==
    \E bucket \in ValidNames, prefix \in ListPrefixes, token \in ListTokens,
       maxKeys \in ListMaxKeys :
        LET r == ListObjectsV2(store[0], bucket, prefix, token, maxKeys) IN
        /\ ret' = [op |-> "ListObjectsV2", bucket |-> bucket, prefix |-> prefix,
                   token |-> token, maxKeys |-> maxKeys, err |-> r.err,
                   keys |-> r.keys, next |-> r.next, truncated |-> r.truncated,
                   walk |-> token = <<>>,
                   visited |-> IF token = <<>> THEN r.keys ELSE <<>>]
        /\ UNCHANGED <<store, now, ids, reqs, written, nops>>

(* the next page of a listing that started with an empty token *)
DoListNext ==
    /\ ret.op = "ListObjectsV2"
    /\ ret.walk /\ ret.truncated
    /\ LET r == ListObjectsV2(store[0], ret.bucket, ret.prefix, ret.next, ret.maxKeys) IN
       ret' = [ret EXCEPT !.token = ret.next, !.err = r.err, !.keys = r.keys,
                          !.next = r.next, !.truncated = r.truncated,
                          !.visited = @ \o r.keys]
    /\ UNCHANGED <<store, now, ids, reqs, written, nops>>

(* strconv.Itoa, as a client formats max-keys *)
RECURSIVE Itoa(_)
Itoa(n) ==
    IF n < 0 THEN <<"-">> \o Itoa(0 - n)
    ELSE IF n < 10 THEN <<Digits[n + 1]>>
    ELSE Itoa(n \div 10) \o <<Digits[(n % 10) + 1]>>

(* the max-keys parameter of a listing request: absent, an integer, or text
   that is no integer *)
MaxKeysParams ==
    {[given |-> "no", v |-> 0, text |-> <<>>], [given |-> "text", v |-> 0, text |-> <<"x">>]}
    \cup {[given |-> "int", v |-> m, text |-> Itoa(m)] : m \in ListMaxKeys}

ListQuery(prefix, token, mk) ==
    LET q1 == MapPut(EmptyMap, "list-type", <<"2">>)
        q2 == IF prefix = <<>> THEN q1 ELSE MapPut(q1, "prefix", prefix)
        q3 == IF token = <<>> THEN q2 ELSE MapPut(q2, "continuation-token", token)
    IN  IF mk.given = "no" THEN q3 ELSE MapPut(q3, "max-keys", mk.text)

(* GET /bk1?list-type=2 signed with the read-write credential *)
DoS3ListObjects ==
    \E prefix \in {<<>>, <<"a">>}, token \in {<<>>, <<"a">>}, mk \in MaxKeysParams :
        LET u == Unsigned("GET", S3Path(BK1, <<>>), StdCred(PXA), StdSigned, AmzDate,
                          FALSE, None)
            r == Signed([u EXCEPT !.query = ListQuery(prefix, token, mk)], "s1")
        IN  \E pick \in S3Picks(store[0], r) :
              LET h == S3ServeHTTP(store[0], r, TRUE, pick, ids, now, "ok") IN
              /\ ret' = [op |-> "s3ListObjectsV2", prefix |-> prefix, token |-> token,
                         maxKeys |-> mk, status |-> h.status, body |-> h.body]
              /\ UNCHANGED <<store, now, ids, reqs, written, nops>>

NextList == DoListObjectsV2 \/ DoListNext \/ DoS3ListObjects

SpecList == InitList /\ [][NextList]_vars

(* the keys of the listed bucket that start with the prefix / that a page
   with this token may hold *)
Matching == {k \in DOMAIN store[0].buckets[ret.bucket].objects : HasPrefix(k, ret.prefix)}
AfterToken == {k \in Matching : ret.token = <<>> \/ StrLess(ret.token, k)}

(* C13: a ListObjectsV2 page holds only keys of the bucket that start with
   the prefix and are greater than the token, in strictly ascending order,
   and they are the smallest such keys; truncated is true iff matching keys
   remain after the page, and then next is the last key of the page;
   following the next tokens from an empty token visits every matching key
   exactly once. *)
C13_ListObjectsV2 ==
    (ret.op = "ListObjectsV2" /\ ret.err = Nil) =>
        /\ Range(ret.keys) \subseteq AfterToken
        /\ \A i, j \in DOMAIN ret.keys : i < j => StrLess(ret.keys[i], ret.keys[j])
        /\ \A k \in AfterToken \ Range(ret.keys) :
              \A q \in Range(ret.keys) : StrLess(q, k)
        /\ ret.truncated <=> (AfterToken \ Range(ret.keys) # {})
        /\ ret.truncated => (ret.keys # <<>> /\ ret.next = ret.keys[Len(ret.keys)])
        /\ (ret.walk /\ ~ret.truncated) =>
              /\ Range(ret.visited) = Matching
              /\ Len(ret.visited) = Cardinality(Matching)

(* keys a, b, c listed with max-keys 2: the page [a, b] with next b, then
   the page [c], not truncated *)
C13_Witness ==
    /\ ret.op = "ListObjectsV2" /\ ret.err = Nil
    /\ ret.maxKeys = 2 /\ ret.prefix = <<>>
    /\ ret.token = <<"b">> /\ ret.keys = << <<"c">> >>
    /\ ~ret.truncated
    /\ ret.walk /\ ret.visited = << <<"a">>, <<"b">>, <<"c">> >>

(* max-keys clamped to the range [1, DefaultMaxKeys] *)
Clamped(m) == IF m < 1 THEN 1 ELSE IF m > DefaultMaxKeys THEN DefaultMaxKeys ELSE m

(* C14: for every integer max-keys a ListObjectsV2 page holds at most
   min(max(max-keys, 1), 1000) keys, and at most 1000 when max-keys is not
   given. *)
C14_PageSizeClamped ==
    /\ (ret.op = "ListObjectsV2" /\ ret.err = Nil)
          => Len(ret.keys) <= Clamped(ret.maxKeys)
    /\ (ret.op = "s3ListObjectsV2" /\ ret.status = 200)
          => Len(ret.body.keys) <= IF ret.maxKeys.given = "int"
                                   THEN Clamped(ret.maxKeys.v) ELSE DefaultMaxKeys

---------------------------------------------------------------------------
(* SpecAccess: the access-key operations of the Store API on one node *)

(* both buckets created, no object, no access key *)
TwoBuckets == CreateBucket(CreateBucket(OpenStore, BK1, 0, "ok").st, BK2, 0, "ok").st

InitAccess ==
    /\ store = [n \in Nodes |-> TwoBuckets]
    /\ now = 0
    /\ ids = 0
    /\ reqs = <<>>
    /\ written = NoWritten
    /\ nops = 0
    /\ ret = [op |-> "OpenStore", err |-> Nil]

(* PutAccess stores the record it is given: the access key is the caller's *)
DoPutAccess ==
    \E b \in ValidNames, ro \in BOOLEAN, ak \in AccessKeys, sk \in Secrets,
       io \in {"ok", "persist"} :
        LET a == [accessKey |-> ak, secretKey |-> sk, bucket |-> b, readOnly |-> ro]
            r == PutAccess(store[0], a, io) IN
        /\ StoreCall(r.st)
        /\ ret' = [op |-> "PutAccess", bucket |-> b, accessKey |-> ak, err |-> r.err]
        /\ UNCHANGED <<ids, written>>

DoLookupAccessKey ==
    \E ak \in AccessKeys :
      \E pick \in Picks(store[0], ak) :
        LET r == LookupAccessKey(store[0], ak, pick) IN
        /\ StoreCall(store[0])
        /\ ret' = [op |-> "LookupAccessKey", accessKey |-> ak, err |-> r.err,
                   access |-> r.access]
        /\ UNCHANGED <<ids, written>>

NextAccess ==
    \/ DoCreateBucket
    \/ DoDeleteBucket
    \/ DoCreateAccess
    \/ DoPutAccess
    \/ DoDeleteAccess
    \/ DoLookupAccessKey

SpecAccess == InitAccess /\ [][NextAccess]_vars

(* C15: after any sequence of CreateAccess, PutAccess, DeleteAccess,
   CreateBucket and DeleteBucket, every access key is in the access map of at
   most one bucket, and a DeleteAccess that returned without error leaves the
   key in no bucket. *)
C15_AccessKeyInOneBucket ==
    /\ \A ak \in AccessKeys : Cardinality(Holders(store[0], ak)) <= 1
    /\ (ret.op = "DeleteAccess" /\ ret.err = Nil)
          => Holders(store[0], ret.accessKey) = {}

(* the access keys bound to bucket b *)
BoundTo(st, b) == DOMAIN st.buckets[b].access

(* the step deleted bucket b: DeleteBucket(b) removed it from the Store *)
BucketDeleted(b) ==
    /\ b \in DOMAIN store[0].buckets
    /\ b \notin DOMAIN store'[0].buckets

(* the step created bucket b *)
BucketCreated(b) ==
    /\ b \notin DOMAIN store[0].buckets
    /\ b \in DOMAIN store'[0].buckets

(* C40: when DeleteBucket(b) has succeeded, no access key that was bound to b
   resolves any more (LookupAccessKey returns not-found), and a later
   CreateBucket(b) starts with an empty access-key set. *)
C40_DeleteBucketDropsKeys ==
    [][\A b \in ValidNames :
          /\ BucketDeleted(b) =>
                \A ak \in BoundTo(store[0], b) :
                    \A pick \in Picks(store'[0], ak) :
                        LookupAccessKey(store'[0], ak, pick).err = "ErrNotFound"
          /\ BucketCreated(b) => BoundTo(store'[0], b) = {}]_vars

---------------------------------------------------------------------------
(* Content files and object records of node 0 *)

(* the (bucket, key) pairs that have an object record *)
Records(st) ==
    {bk \in (DOMAIN st.buckets) \X Keys : bk[2] \in DOMAIN st.buckets[bk[1]].objects}

RecordPath(st, bk) == st.buckets[bk[1]].objects[bk[2]].path

(* C16: after any sequence of completed Store operations every object record
   references an existing content file, no two records share a file, and
   every content file is referenced by some record. *)
C16_OneFilePerRecord ==
    /\ \A bk \in Records(store[0]) : RecordPath(store[0], bk) \in DOMAIN store[0].files
    /\ \A bk1, bk2 \in Records(store[0]) :
           RecordPath(store[0], bk1) = RecordPath(store[0], bk2) => bk1 = bk2
    /\ \A f \in DOMAIN store[0].files :
           \E bk \in Records(store[0]) : RecordPath(store[0], bk) = f

---------------------------------------------------------------------------
(* SpecCrash: PutObject interrupted by a crash, and the restart *)

(* load: the state a restarted Store reads from metadata.json; content files
   are whatever the directory holds *)
load(st) == [st EXCEPT !.buckets = st.disk]

(* the places where PutObject can stop once the content file is written and
   closed and before persistLocked's rename: before the previous file of a
   replaced key is unlinked, after it, and after metadata.json.tmp is written *)
CrashPoints == {"written", "unlinked", "tmp"}

(* PutObject run up to the crash point, then OpenStore on the same directory *)
PutObjectCrash(st, bucket, key, body, id, point) ==
    LET path == <<bucket, id>>
        b == st.buckets[bucket]
        files1 == MapPut(st.files, path, body)
        files2 == IF /\ point \in {"unlinked", "tmp"}
                     /\ key \in DOMAIN b.objects
                     /\ b.objects[key].path # path
                  THEN MapDrop(files1, b.objects[key].path)
                  ELSE files1
    IN  load([st EXCEPT !.files = files2])

InitCrash ==
    /\ store = [n \in Nodes |-> TwoBuckets]
    /\ now = 0
    /\ ids = 0
    /\ reqs = <<>>
    /\ written = NoWritten
    /\ nops = 0
    /\ ret = [op |-> "OpenStore", err |-> Nil]

DoCrashPutObject ==
    \E b \in ValidNames, k \in Keys, v \in Payloads, point \in CrashPoints :
        /\ b \in DOMAIN store[0].buckets
        /\ StoreCall(PutObjectCrash(store[0], b, k, v, ids, point))
        /\ ids' = ids + 1
        /\ ret' = [op |-> "CrashPutObject", bucket |-> b, key |-> k, body |-> v,
                   path |-> <<b, ids>>, point |-> point,
                   old |-> OpenObject(store[0], b, k),
                   replaced |-> k \in DOMAIN store[0].buckets[b].objects]
        /\ written' = [written EXCEPT ![b][k] = None]

(* the places where DeleteObject and DeleteBucket can stop: before
   persistLocked's rename, and after it with the files not yet removed *)
DeleteCrashPoints == {"tmp", "renamed"}

(* DeleteObject run up to the crash point, then OpenStore *)
DeleteObjectCrash(st, bucket, key, point) ==
    IF bucket \notin DOMAIN st.buckets THEN load(st)
    ELSE IF key \notin DOMAIN st.buckets[bucket].objects THEN load(st)
    ELSE IF point = "tmp" THEN load(st)
    ELSE load(persistLocked([st EXCEPT !.buckets[bucket].objects = MapDrop(@, key)],
                            "ok").st)

(* DeleteBucket run up to the crash point, then OpenStore *)
DeleteBucketCrash(st, name, point) ==
    IF name \notin DOMAIN st.buckets THEN load(st)
    ELSE IF DOMAIN st.buckets[name].objects # {} THEN load(st)
    ELSE IF point = "tmp" THEN load(st)
    ELSE load(persistLocked([st EXCEPT !.buckets = MapDrop(st.buckets, name)], "ok").st)

DoCrashDeleteObject ==
    \E b \in ValidNames, k \in Keys, point \in DeleteCrashPoints :
        /\ StoreCall(DeleteObjectCrash(store[0], b, k, point))
        /\ ret' = [op |-> "CrashDeleteObject", bucket |-> b, key |-> k,
                   point |-> point]
        /\ written' = [written EXCEPT ![b][k] = None]
        /\ UNCHANGED ids

DoCrashDeleteBucket ==
    \E b \in ValidNames, point \in DeleteCrashPoints :
        /\ StoreCall(DeleteBucketCrash(store[0], b, point))
        /\ ret' = [op |-> "CrashDeleteBucket", bucket |-> b, point |-> point]
        /\ UNCHANGED <<ids, written>>

NextCrash ==
    \/ DoPutObject
    \/ DoDeleteObject
    \/ DoCrashPutObject
    \/ DoCrashDeleteObject
    \/ DoCrashDeleteBucket

SpecCrash == InitCrash /\ [][NextCrash]_vars

(* C17: when PutObject(b,k) crashes after the content file is written and
   before the metadata rename, the metadata loaded at restart holds no
   reference to that content file and no object at key k. *)
C17_CrashLeavesNoObject ==
    ret.op = "CrashPutObject" =>
        /\ \A bk \in Records(store[0]) : RecordPath(store[0], bk) # ret.path
        /\ ret.key \notin DOMAIN store[0].buckets[ret.bucket].objects

CrashOps == {"CrashPutObject", "CrashDeleteObject", "CrashDeleteBucket"}

(* C38: after a crash at any step of PutObject, DeleteObject or DeleteBucket
   and the reopening of the Store, every object record of the loaded metadata
   names a content file that exists, and a key that held an object before an
   interrupted overwrite returns that complete old object or the complete new
   one. *)
C38_CrashKeepsRecordsValid ==
    ret.op \in CrashOps =>
        /\ \A bk \in Records(store[0]) :
               RecordPath(store[0], bk) \in DOMAIN store[0].files
        /\ (ret.op = "CrashPutObject" /\ ret.old.err = Nil) =>
               LET o == OpenObject(store[0], ret.bucket, ret.key) IN
               \/ o = ret.old
               \/ /\ o.err = Nil
                  /\ o.body = ret.body
                  /\ o.meta.etag = Sha256Hex(ret.body)

---------------------------------------------------------------------------
(* SpecConc: an OpenObject running concurrently with writers on one node.
   PutObject and DeleteObject hold the write lock from entry to return, so
   each is one step. OpenObject holds the read lock inside GetObjectMeta only
   and calls os.Open after releasing it, so it is two steps. *)

InitConc ==
    /\ store \in {[n \in Nodes |-> s] : s \in {Provisioned, Stocked}}
    /\ now = 0
    /\ ids = 1
    /\ reqs = <<>>
    /\ ret = [op |-> "none"]
    /\ written = NoWritten
    /\ nops = 0

ConcStep ==
    /\ nops < MaxOps
    /\ nops' = nops + 1
    /\ UNCHANGED <<now, written>>

(* the pending OpenObject, with one more state it may be ordered at *)
Observe(st1) ==
    [i \in 1 .. Len(reqs) |->
        [reqs[i] EXCEPT !.seq = @ \cup {OpenObject(st1, reqs[i].bucket, reqs[i].key)},
                        !.changed = @ \/ OpenObject(st1, reqs[i].bucket, reqs[i].key)
                                         # OpenObject(store[0], reqs[i].bucket,
                                                      reqs[i].key)]]

(* OpenObject, first half: GetObjectMeta under the read lock *)
OpenObjectMeta ==
    \E b \in ValidNames, k \in Keys :
        /\ reqs = <<>>
        /\ ConcStep
        /\ reqs' = <<[bucket |-> b, key |-> k, pc |-> "meta", f |-> None,
                      changed |-> FALSE,
                      m |-> GetObjectMeta(store[0], b, k),
                      seq |-> {OpenObject(store[0], b, k)}]>>
        /\ UNCHANGED <<store, ids, ret>>

(* OpenObject, second half: os.Open(m.Path) without the lock, and the return.
   The open file keeps the bytes it has, whatever happens to its name. *)
OpenObjectFile ==
    /\ reqs # <<>>
    /\ reqs[1].pc = "meta"
    /\ ConcStep
    /\ LET x == reqs[1]
           res == IF x.m.err # Nil
                  THEN [err |-> x.m.err, meta |-> NoMeta, body |-> None]
                  ELSE IF x.m.meta.path \notin DOMAIN store[0].files
                       THEN [err |-> "ErrNotFound", meta |-> NoMeta, body |-> None]
                  ELSE [err |-> Nil, meta |-> x.m.meta,
                        body |-> store[0].files[x.m.meta.path]]
       IN  /\ ret' = [op |-> "OpenObjectReturn", bucket |-> x.bucket, key |-> x.key,
                      res |-> res, seq |-> x.seq,
                      started |-> x.m.err = Nil]
           /\ reqs' = <<[x EXCEPT !.pc = "copy", !.f = res]>>
    /\ UNCHANGED <<store, ids>>

(* getObject after OpenObject returned: the reply is written from the
   metadata and the open file (s3/handler.go:234-247) *)
GetObjectCopy ==
    /\ reqs # <<>>
    /\ reqs[1].pc = "copy"
    /\ ret' = [op |-> "getObject", bucket |-> reqs[1].bucket, key |-> reqs[1].key,
               resp |-> getObjectWrite(store[0], reqs[1].f),
               changed |-> reqs[1].changed]
    /\ reqs' = <<>>
    /\ UNCHANGED <<store, now, ids, written, nops>>

ConcPutObject ==
    \E b \in ValidNames, k \in Keys, v \in Payloads, io \in {"ok", "persist"} :
        LET r == PutObject(store[0], b, k, v, ids, now, io) IN
        /\ ConcStep
        /\ store' = [store EXCEPT ![0] = r.st]
        /\ ids' = ids + 1
        /\ reqs' = Observe(r.st)
        /\ ret' = [op |-> "PutObject", bucket |-> b, key |-> k, err |-> r.err]

ConcDeleteObject ==
    \E b \in ValidNames, k \in Keys, io \in {"ok", "persist"} :
        LET r == DeleteObject(store[0], b, k, io) IN
        /\ ConcStep
        /\ store' = [store EXCEPT ![0] = r.st]
        /\ reqs' = Observe(r.st)
        /\ ret' = [op |-> "DeleteObject", bucket |-> b, key |-> k, err |-> r.err]
        /\ UNCHANGED ids

NextConc ==
    \/ OpenObjectMeta
    \/ OpenObjectFile
    \/ GetObjectCopy
    \/ ConcPutObject
    \/ ConcDeleteObject

SpecConc == InitConc /\ [][NextConc]_vars

(* C18: the result of an OpenObject that ran concurrently with PutObject and
   DeleteObject calls equals the result OpenObject gives in some sequential
   order of the same calls, that is, at one of the states the Store went
   through between the call and the return; over a PutObject that replaces
   the key this is the complete old object or the complete new one. *)
C18_Linearizable ==
    ret.op = "OpenObjectReturn" => ret.res \in ret.seq

---------------------------------------------------------------------------
(* C39: every successful GetObject response is consistent in itself: the
   ETag and the Content-Length it reports are those of the bytes of its
   body, also when the key is overwritten or deleted while the read runs. *)
C39_GetObjectConsistent ==
    (ret.op = "getObject" /\ ret.resp.status = 200) =>
        /\ ret.resp.etag = Quote(Sha256Hex(ret.resp.body))
        /\ ret.resp.size = Len(ret.resp.body)

(* a GET answered 200 although the key was overwritten or deleted between
   its call and its reply *)
C39_Witness ==
    /\ ret.op = "getObject"
    /\ ret.resp.status = 200
    /\ ret.changed
    /\ ret.resp.body = <<"h", "i">>
    /\ OpenObject(store[0], ret.bucket, ret.key).err = Nil
    /\ OpenObject(store[0], ret.bucket, ret.key).body = <<"y">>

---------------------------------------------------------------------------
(* SpecLeader: Leader() and IsLeader() called on a node, over every outcome
   of the health probes *)

(* what a probe of one peer gives: no response (0) or the status answered *)
ProbeAnswers == {0, 200, 401, 503}

(* health: the probe succeeded and the status is 200 *)
health(answer) == answer = 200

InitLeader ==
    /\ InitCommon
    /\ ret = [op |-> "none"]

DoLeader ==
    \E n \in Nodes, answers \in [Nodes -> ProbeAnswers] :
        LET probes == {i \in Nodes : health(answers[i])} IN
        /\ ret' = [op |-> "Leader", node |-> n, answers |-> answers,
                   leader |-> Leader(probes), isLeader |-> IsLeader(n, probes)]
        /\ UNCHANGED <<store, now, ids, reqs, written, nops>>

NextLeader == DoLeader

SpecLeader == InitLeader /\ [][NextLeader]_vars

(* the ordinals whose probe answered 200 in the call *)
Answered200 == {i \in Nodes : ret.answers[i] = 200}

(* C19: Leader() returns the lowest ordinal of 0..N-1 whose health probe
   answered 200 in the call, and ordinal 0 when none did; IsLeader() is true
   exactly when that ordinal is the node's own. *)
C19_LowestHealthyOrdinal ==
    ret.op = "Leader" =>
        /\ IF Answered200 = {}
           THEN ret.leader = 0
           ELSE /\ ret.leader \in Answered200
                /\ \A j \in Answered200 : ret.leader <= j
        /\ ret.isLeader <=> (ret.leader = ret.node)

(* node 1 asks while node 0 answers 503 and nodes 1 and 2 answer 200 *)
C19_Witness ==
    /\ ret.op = "Leader"
    /\ ret.node = 1
    /\ ret.answers[0] = 503
    /\ ret.answers[1] = 200
    /\ ret.answers[2] = 200
    /\ ret.leader = 1
    /\ ret.isLeader

---------------------------------------------------------------------------
(* SpecNotFound: the handler functions that make one Store call, run on node
   0 against buckets and keys that exist and that do not *)

InitNotFound ==
    /\ store \in {[n \in Nodes |-> s] : s \in {Provisioned, Stocked}}
    /\ now = 0
    /\ ids = 1
    /\ reqs = <<>>
    /\ ret = [op |-> "none"]
    /\ written = NoWritten
    /\ nops = 0

S3Handlers == {"listObjectsV2", "putObject", "deleteBucket", "getObject", "headObject"}

(* the handler function named name, called for (b, k) *)
S3Handler(name, st, b, k, v, id, t) ==
    LET r == [query |-> ListQuery(<<>>, <<>>, [given |-> "no"]), body |-> v] IN
    IF name = "listObjectsV2" THEN s3ListObjectsV2(st, r, b)
    ELSE IF name = "putObject" THEN s3PutObject(st, r, b, k, id, t, "ok")
    ELSE IF name = "deleteBucket" THEN s3DeleteBucket(st, b, "ok")
    ELSE IF name = "getObject" THEN s3GetObject(st, b, k)
    ELSE s3HeadObject(st, b, k)

(* the error of the Store call that handler makes *)
S3StoreErr(name, st, b, k, v, id, t) ==
    IF name = "listObjectsV2" THEN ListObjectsV2(st, b, <<>>, <<>>, DefaultMaxKeys).err
    ELSE IF name = "putObject" THEN PutObject(st, b, k, v, id, t, "ok").err
    ELSE IF name = "deleteBucket" THEN DeleteBucket(st, b, "ok").err
    ELSE IF name = "getObject" THEN OpenObject(st, b, k).err
    ELSE GetObjectMeta(st, b, k).err

DoS3Handler ==
    \E name \in S3Handlers, b \in ValidNames, k \in Keys, v \in Payloads :
        LET h == S3Handler(name, store[0], b, k, v, ids, now) IN
        /\ StoreCall(h.st)
        /\ ids' = ids + 1
        /\ ret' = [op |-> name, bucket |-> b, key |-> k, status |-> h.status,
                   code |-> h.code,
                   storeErr |-> S3StoreErr(name, store[0], b, k, v, ids, now),
                   unchanged |-> h.st = store[0]]
        /\ UNCHANGED written

(* POST /admin/access {"bucket": b, "readOnly": ro} *)
DoAdminCreateAccess ==
    \E b \in ValidNames, ro \in BOOLEAN, ak \in AccessKeys \cup {PXZ}, sk \in Secrets :
        LET r == AdminReq("POST", <<AdminAccess>>, Token, FALSE,
                          JsonMarshal([bucket |-> b, readOnly |-> ro]))
            h == adminCreateAccess(store[0], r, ak, sk, "ok")
        IN
        /\ Holders(store[0], ak) = {}
        /\ StoreCall(h.st)
        /\ ret' = [op |-> "createAccess", bucket |-> b, key |-> <<>>,
                   status |-> h.status, code |-> h.code,
                   storeErr |-> CreateAccess(store[0], b, ro, ak, sk, "ok").err,
                   unchanged |-> h.st = store[0]]
        /\ UNCHANGED <<ids, written>>

NextNotFound ==
    \/ DoS3Handler
    \/ DoAdminCreateAccess
    \/ DoDeleteBucket

SpecNotFound == InitNotFound /\ [][NextNotFound]_vars

(* C22: when the Store call made for an S3 or admin request fails with
   not-found, the response status is 404, with code NoSuchBucket or NoSuchKey
   on the S3 surface, and the Store is unchanged. *)
C22_NotFoundIs404 ==
    (ret.op \in S3Handlers \cup {"createAccess"} /\ ret.storeErr = "ErrNotFound") =>
        /\ ret.status = 404
        /\ ret.op \in S3Handlers => ret.code \in {"NoSuchBucket", "NoSuchKey"}
        /\ ret.unchanged

---------------------------------------------------------------------------
(* SpecNames: CreateBucket and the S3 bucket PUT over names at and around
   every limit validBucket tests *)

Repeat(c, n) == [i \in 1 .. n |-> c]

NameCases ==
    {<<>>, <<"a">>, <<"a", "b">>, <<"a", "b", "c">>, <<"0", "a", "9">>,
     <<"-", "a", "b">>, <<"a", "b", "-">>, <<"a", "-", "b">>, <<"-", "-", "-">>,
     <<".", "a", "b">>, <<"a", "b", ".">>, <<"a", ".", "b">>,
     <<"a", "B", "c">>, <<"a", "_", "c">>, <<"a", "/", "c">>, <<"a", " ", "c">>,
     <<"a", EAcute>>, <<"a", "b", EAcute>>,
     Repeat("a", MaxBucketLen - 1), Repeat("a", MaxBucketLen),
     Repeat("a", MaxBucketLen + 1),
     Repeat("a", MaxBucketLen - 1) \o <<"-">>, <<"-">> \o Repeat("a", MaxBucketLen - 1)}

InitNames ==
    /\ InitCommon
    /\ ret = [op |-> "OpenStore", err |-> Nil]

DoCreateNamed ==
    \E name \in NameCases, io \in {"ok", "mkdir", "persist"} :
        LET c == CreateBucket(store[0], name, now, io)
            h == s3CreateBucket(store[0], name, now, io)
        IN
        /\ StoreCall(c.st)
        /\ ret' = [op |-> "CreateBucketNamed", name |-> name, io |-> io, err |-> c.err,
                   status |-> h.status, code |-> h.code,
                   exists |-> name \in DOMAIN c.st.buckets,
                   unchanged |-> c.st = store[0] /\ h.st = store[0]]
        /\ UNCHANGED <<ids, written>>

DoDeleteNamed ==
    \E name \in NameCases :
        LET c == DeleteBucket(store[0], name, "ok") IN
        /\ StoreCall(c.st)
        /\ ret' = [op |-> "DeleteBucket", bucket |-> name, err |-> c.err]
        /\ UNCHANGED <<ids, written>>

NextNames ==
    \/ DoCreateNamed
    \/ DoDeleteNamed

SpecNames == InitNames /\ [][NextNames]_vars

LowerAlnumDotDash ==
    {"a","b","c","d","e","f","g","h","i","j","k","l","m","n","o","p","q","r",
     "s","t","u","v","w","x","y","z","0","1","2","3","4","5","6","7","8","9",
     ".", "-"}

(* 3 to 63 characters, all of [a-z0-9.-], no '-' at either end *)
WellFormedName(name) ==
    /\ Len(name) \in MinBucketLen .. MaxBucketLen
    /\ \A i \in 1 .. Len(name) : name[i] \in LowerAlnumDotDash
    /\ Head(name) # "-"
    /\ name[Len(name)] # "-"

(* C23: CreateBucket(name) succeeds exactly for the names of 3 to 63
   characters from [a-z0-9.-] that neither start nor end with '-' (the disk
   operations succeeding); for every other name it returns the invalid-name
   error, the S3 surface answers 400 InvalidBucketName, and no bucket is
   created. *)
C23_BucketNameValidation ==
    ret.op = "CreateBucketNamed" =>
        /\ ret.io = "ok" => ((ret.err = Nil) <=> WellFormedName(ret.name))
        /\ WellFormedName(ret.name) => ret.err # "invalid bucket name"
        /\ ~WellFormedName(ret.name) =>
              /\ ret.err = "invalid bucket name"
              /\ ret.status = 400
              /\ ret.code = "InvalidBucketName"
              /\ ~ret.exists
              /\ ret.unchanged

(* a 63-character name was accepted and a name ending in '-' was refused *)
C23_Witness ==
    /\ ret.op = "CreateBucketNamed"
    /\ ret.name = Repeat("a", MaxBucketLen - 1) \o <<"-">>
    /\ ret.err = "invalid bucket name"
    /\ Repeat("a", MaxBucketLen) \in DOMAIN store[0].buckets

---------------------------------------------------------------------------
(* SpecListBuckets: the S3 GET on the root path, on a node whose buckets and
   access keys vary *)

InitListBuckets ==
    /\ store = [n \in Nodes |-> Provisioned]
    /\ now = 0
    /\ ids = 0
    /\ reqs = <<>>
    /\ ret = [op |-> "none"]
    /\ written = NoWritten
    /\ nops = 0

(* GET / signed with one of the client's credentials *)
DoS3ListBuckets ==
    \E c \in {CredA, CredB, CredBad} :
        LET r == S3Req("GET", <<>>, <<>>, c, FALSE, None) IN
        \E pick \in S3Picks(store[0], r) :
            LET h == S3ServeHTTP(store[0], r, TRUE, pick, ids, now, "ok") IN
            /\ StoreCall(h.st)
            /\ ret' = [op |-> "s3ListBuckets", accessKey |-> c[1], status |-> h.status,
                       body |-> h.body, bound |-> Holders(store[0], c[1])]
            /\ UNCHANGED <<ids, written>>

NextListBuckets ==
    \/ DoCreateBucket
    \/ DoDeleteBucket
    \/ DoPutAccess
    \/ DoS3ListBuckets

SpecListBuckets == InitListBuckets /\ [][NextListBuckets]_vars

(* C24: the answer to an authenticated GET on the root path names no bucket
   other than one the credential is bound to, whatever buckets the node has. *)
C24_ListBucketsScoped ==
    (ret.op = "s3ListBuckets" /\ ret.status = 200) =>
        /\ ret.body \subseteq ret.bound
        /\ Cardinality(ret.body) <= 1

(* the node has bk1 and bk2; the credential of bk1 is shown bk1 only *)
C24_Witness ==
    /\ ret.op = "s3ListBuckets"
    /\ ret.status = 200
    /\ ret.accessKey = PXA
    /\ ret.body = {BK1}
    /\ BK2 \in DOMAIN store[0].buckets

---------------------------------------------------------------------------
(* SpecReplicate: Cluster.Replicate as a function of the configured replica
   count, the node's ordinal, the path and what each peer answers *)

MaxReplicas == 4

(* New: a replica count of zero or less is taken as 1 *)
ReplicasOf(configured) == IF configured <= 0 THEN 1 ELSE configured

(* what a peer's call gives: no response (0) or the status answered *)
PeerAnswers == {0, 204, 400}

KeyPct == <<"k", "%", "z", "z">>

(* the paths the handlers pass to Replicate: prefix + bucket [+ "/" + key] *)
ReplicatePaths ==
    {<<ReplBuckets>> \o BK1} \cup
    {<<ReplObjects>> \o BK1 \o <<"/">> \o k : k \in {KeyK, KeyQ, KeyPct}}

(* the loop of Replicate from ordinal i on: the ordinals a request was sent
   to, in order, and the acknowledgements counted on top of the node's own *)
RECURSIVE ReplicateLoop(_, _, _, _, _)
ReplicateLoop(i, n, self, path, answers) ==
    IF i >= n THEN [sent |-> <<>>, acks |-> 1]
    ELSE LET rest == ReplicateLoop(i + 1, n, self, path, answers) IN
         IF i = self THEN rest
         ELSE IF ~NewRequestOK(path) THEN rest
         ELSE [sent |-> <<i>> \o rest.sent,
               acks |-> rest.acks + (IF answers[i] >= 200 /\ answers[i] < 300
                                     THEN 1 ELSE 0)]

Replicate(n, self, path, answers) ==
    IF ~(n > 1) THEN [sent |-> <<>>, acks |-> 0, err |-> Nil]
    ELSE LET l == ReplicateLoop(0, n, self, path, answers)
             required == (n \div 2) + 1
         IN  [sent |-> l.sent, acks |-> l.acks,
              err |-> IF l.acks < required THEN "replication quorum not reached"
                      ELSE Nil]

InitReplicate ==
    /\ InitCommon
    /\ ret = [op |-> "none"]

DoReplicate ==
    \E configured \in 0 .. MaxReplicas, self \in 0 .. MaxReplicas,
       path \in ReplicatePaths :
      \E answers \in [0 .. (ReplicasOf(configured) - 1) -> PeerAnswers] :
        LET n == ReplicasOf(configured)
            r == Replicate(n, self, path, answers)
        IN
        /\ ret.op = "none"
        /\ ret' = [op |-> "Replicate", n |-> n, self |-> self, path |-> path,
                   answers |-> answers, sent |-> r.sent, acks |-> r.acks, err |-> r.err]
        /\ UNCHANGED <<store, now, ids, reqs, written, nops>>

NextReplicate == DoReplicate

SpecReplicate == InitReplicate /\ [][NextReplicate]_vars

(* the ordinals of 0..N-1 other than the caller's *)
PeersOf(n, self) == {i \in 0 .. (n - 1) : i # self}

(* C27: Replicate sends one request, and only one, to every ordinal of
   0..N-1 other than its own, counts 1 for itself and 1 for each peer that
   answered 2xx, and returns the quorum failure exactly when the count is
   below floor(N/2)+1; with N <= 1 it contacts no peer and returns nil. *)
C27_ReplicateQuorum ==
    ret.op = "Replicate" =>
        IF ret.n <= 1
        THEN ret.sent = <<>> /\ ret.err = Nil
        ELSE /\ Range(ret.sent) = PeersOf(ret.n, ret.self)
             /\ Len(ret.sent) = Cardinality(PeersOf(ret.n, ret.self))
             /\ ret.acks = 1 + Cardinality({i \in PeersOf(ret.n, ret.self) :
                                               Is2xx(ret.answers[i])})
             /\ (ret.err # Nil) <=> (ret.acks < (ret.n \div 2) + 1)

---------------------------------------------------------------------------
(* SpecCommit: the mutating handler functions on node 0, each as the Store
   call it makes followed by its decision to call Replicate. The S3 DELETE of
   an object is taken in its two parts, ServeHTTP's authentication and the
   deleteObject function, between which other requests of the node run. *)

InitCommit ==
    /\ store \in {[n \in Nodes |-> s] : s \in {Provisioned, Stocked}}
    /\ now = 0
    /\ ids = 1
    /\ reqs = <<>>
    /\ ret = [op |-> "none"]
    /\ written = NoWritten
    /\ nops = 0

CommitStep(st1) ==
    /\ nops < MaxOps
    /\ nops' = nops + 1
    /\ store' = [store EXCEPT ![0] = st1]
    /\ UNCHANGED <<now, written>>

(* what a handler did: the error of its Store call and whether it went on
   to Replicate *)
Outcome(name, storeErr, h) ==
    [op |-> name, storeErr |-> storeErr, replicated |-> h.kind = "repl",
     status |-> h.status]

DoS3CreateBucket ==
    \E b \in BucketNames, io \in {"ok", "mkdir", "persist"} :
        /\ CommitStep(s3CreateBucket(store[0], b, now, io).st)
        /\ ret' = Outcome("createBucket", CreateBucket(store[0], b, now, io).err,
                          s3CreateBucket(store[0], b, now, io))
        /\ UNCHANGED <<ids, reqs>>

DoS3DeleteBucket ==
    \E b \in ValidNames, io \in {"ok", "persist"} :
        /\ CommitStep(s3DeleteBucket(store[0], b, io).st)
        /\ ret' = Outcome("deleteBucket", DeleteBucket(store[0], b, io).err,
                          s3DeleteBucket(store[0], b, io))
        /\ UNCHANGED <<ids, reqs>>

DoS3PutObject ==
    \E k \in Keys, v \in Payloads, io \in {"ok", "create", "persist"} :
        LET r == S3Req("PUT", BK1, k, CredA, FALSE, v) IN
        /\ CommitStep(s3PutObject(store[0], r, BK1, k, ids, now, io).st)
        /\ ids' = ids + 1
        /\ ret' = Outcome("putObject", PutObject(store[0], BK1, k, v, ids, now, io).err,
                          s3PutObject(store[0], r, BK1, k, ids, now, io))
        /\ UNCHANGED reqs

DoAdminCreateAccessOn ==
    \E b \in ValidNames, ak \in {PXZ}, sk \in Secrets, io \in {"ok", "persist"} :
        LET r == AdminReq("POST", <<AdminAccess>>, Token, FALSE,
                          JsonMarshal([bucket |-> b, readOnly |-> FALSE]))
        IN
        /\ Holders(store[0], ak) = {}
        /\ CommitStep(adminCreateAccess(store[0], r, ak, sk, io).st)
        /\ ret' = Outcome("createAccess",
                          CreateAccess(store[0], b, FALSE, ak, sk, io).err,
                          adminCreateAccess(store[0], r, ak, sk, io))
        /\ UNCHANGED <<ids, reqs>>

(* ServeHTTP for DELETE /bk1/<key>: the signature verifies, the bucket is
   the credential's, the credential may write, the node is the leader *)
S3DeleteBegin ==
    \E k \in Keys :
        LET r == S3Req("DELETE", BK1, k, CredA, FALSE, None) IN
        \E pick \in S3Picks(store[0], r) :
            /\ reqs = <<>>
            /\ S3Authorized(r, store[0], pick)
            /\ CommitStep(store[0])
            /\ reqs' = <<[bucket |-> BK1, key |-> k]>>
            /\ UNCHANGED <<ids, ret>>

(* the deleteObject function ServeHTTP then calls *)
S3DeleteRun ==
    \E io \in {"ok", "persist"} :
        /\ reqs # <<>>
        /\ CommitStep(s3DeleteObject(store[0], reqs[1].bucket, reqs[1].key, io).st)
        /\ ret' = Outcome("deleteObject",
                          DeleteObject(store[0], reqs[1].bucket, reqs[1].key, io).err,
                          s3DeleteObject(store[0], reqs[1].bucket, reqs[1].key, io))
        /\ reqs' = <<>>
        /\ UNCHANGED ids

NextCommit ==
    \/ DoS3CreateBucket
    \/ DoS3DeleteBucket
    \/ DoS3PutObject
    \/ DoAdminCreateAccessOn
    \/ S3DeleteBegin
    \/ S3DeleteRun

SpecCommit == InitCommit /\ [][NextCommit]_vars

MutationHandlers ==
    {"createBucket", "deleteBucket", "putObject", "createAccess", "deleteObject"}

(* C28: a handler sends the replication requests of a mutation only after
   its local Store call succeeded: none is sent when the Store call failed,
   and they are sent when it succeeded. *)
C28_CommitBeforeReplicate ==
    ret.op \in MutationHandlers => (ret.replicated <=> ret.storeErr = Nil)

---------------------------------------------------------------------------
(* SpecPut: PutObject statement by statement, under the Store's mutex: the
   content file is created, the body copied and the file closed, the previous
   file of a replaced key unlinked, the record set and persistLocked run. *)

InitPut ==
    /\ store \in {[n \in Nodes |-> s] : s \in {Provisioned, Stocked}}
    /\ now = 0
    /\ ids = 1
    /\ reqs = <<>>
    /\ ret = [op |-> "none"]
    /\ written = NoWritten
    /\ nops = 0

(* the path of the record the key has when PutObject is entered *)
PrevPath(st, bucket, key) ==
    IF key \in DOMAIN st.buckets[bucket].objects
    THEN st.buckets[bucket].objects[key].path
    ELSE None

PutReturn(x, err) ==
    [op |-> "PutObjectEnd", bucket |-> x.bucket, key |-> x.key, body |-> x.body,
     path |-> x.path, prev |-> x.prev, err |-> err]

(* store.go:141-162: the checks, MkdirAll, randomHex and os.Create *)
PutCreate ==
    \E k \in Keys, v \in Payloads, io \in {"ok", "mkdir", "create"} :
        LET x == [pc |-> "created", bucket |-> BK1, key |-> k, body |-> v,
                  path |-> <<BK1, ids>>, prev |-> PrevPath(store[0], BK1, k)]
        IN
        /\ reqs = <<>>
        /\ nops < MaxOps
        /\ nops' = nops + 1
        /\ ids' = ids + 1
        /\ IF io = "ok"
           THEN /\ store' = [store EXCEPT ![0].files = MapPut(@, x.path, <<>>)]
                /\ reqs' = <<x>>
                /\ ret' = [op |-> "PutObjectBegin"]
           ELSE /\ ret' = PutReturn(x, "io")
                /\ UNCHANGED <<store, reqs>>
        /\ UNCHANGED <<now, written>>

(* store.go:163-173: io.Copy and Close; either error unlinks the new file *)
PutCopy ==
    \E io \in {"ok", "copy", "close"} :
        /\ reqs # <<>>
        /\ reqs[1].pc = "created"
        /\ IF io = "ok"
           THEN /\ store' = [store EXCEPT ![0].files =
                                 MapPut(@, reqs[1].path, reqs[1].body)]
                /\ reqs' = <<[reqs[1] EXCEPT !.pc = "written"]>>
                /\ UNCHANGED ret
           ELSE /\ store' = [store EXCEPT ![0].files = MapDrop(@, reqs[1].path)]
                /\ reqs' = <<>>
                /\ ret' = PutReturn(reqs[1], "io")
        /\ UNCHANGED <<now, ids, written, nops>>

(* store.go:177-179: os.Remove(prev.Path) *)
PutUnlinkPrev ==
    /\ reqs # <<>>
    /\ reqs[1].pc = "written"
    /\ store' = [store EXCEPT ![0].files =
                     IF reqs[1].prev # None /\ reqs[1].prev # reqs[1].path
                     THEN MapDrop(@, reqs[1].prev)
                     ELSE @]
    /\ reqs' = <<[reqs[1] EXCEPT !.pc = "unlinked"]>>
    /\ UNCHANGED <<now, ids, ret, written, nops>>

(* store.go:180-184: the record is set, persistLocked runs, PutObject returns *)
PutPersist ==
    \E io \in {"ok", "persist"} :
        LET x == reqs[1]
            rec == [size |-> Len(x.body), etag |-> Sha256Hex(x.body),
                    modTime |-> now, path |-> x.path]
            st1 == [store[0] EXCEPT !.buckets[x.bucket].objects =
                                        MapPut(@, x.key, rec)]
            p == persistLocked(st1, io)
        IN
        /\ reqs # <<>>
        /\ reqs[1].pc = "unlinked"
        /\ store' = [store EXCEPT ![0] = p.st]
        /\ reqs' = <<>>
        /\ ret' = PutReturn(x, p.err)
        /\ UNCHANGED <<now, ids, written, nops>>

NextPut ==
    \/ PutCreate
    \/ PutCopy
    \/ PutUnlinkPrev
    \/ PutPersist

SpecPut == InitPut /\ [][NextPut]_vars

(* metadata.json names the new content file for the key: the rename of the
   PutObject in x has happened *)
Renamed(x) ==
    IF x.key \in DOMAIN store[0].disk[x.bucket].objects
    THEN store[0].disk[x.bucket].objects[x.key].path = x.path
    ELSE FALSE

(* C29: while PutObject replaces an existing object, the previous content
   file is on disk at every point before the metadata rename for the new
   record has succeeded. *)
C29_PrevKeptUntilRename ==
    /\ reqs # <<>> =>
           (reqs[1].prev # None => reqs[1].prev \in DOMAIN store[0].files)
    /\ ret.op = "PutObjectEnd" =>
           ((ret.prev # None /\ ~Renamed(ret)) => ret.prev \in DOMAIN store[0].files)

(* C30: a PutObject that returns an error leaves no new content file on
   disk. *)
C30_FailedPutLeavesNoFile ==
    ret.op = "PutObjectEnd" =>
        (ret.err # Nil => ret.path \notin DOMAIN store[0].files)

---------------------------------------------------------------------------
(* SpecLock: Store calls of concurrent goroutines on one node, with the
   Store's sync.RWMutex. A call blocks at Lock/RLock until the mutex admits
   it. PutObject takes the write lock in its first statement and releases it
   at return (store.go:142-143), so the streaming of the content and the
   commit of the record both happen while it is the holder. The readers hold
   the read lock for the whole call. *)

LockReads == {"GetObjectMeta", "ListObjectsV2", "LookupAccessKey"}

InitLock ==
    /\ store \in {[n \in Nodes |-> s] : s \in {Provisioned, Stocked}}
    /\ now = 0
    /\ ids = 1
    /\ reqs = <<>>
    /\ ret = [op |-> "none"]
    /\ written = NoWritten
    /\ nops = 0

(* goroutines inside a call that have not returned *)
Running == {i \in DOMAIN reqs : reqs[i].pc # "done"}

(* a goroutine calls into the Store and reaches s.mu.Lock() or s.mu.RLock() *)
CallStore ==
    \E op \in LockReads \cup {"PutObject"}, k \in Keys, v \in Payloads :
        /\ Len(reqs) < MaxReqs
        /\ op \in LockReads => (k = KeyK /\ v = <<"y">>)
        /\ reqs' = Append(reqs, [op |-> op, pc |-> "wait", bucket |-> BK1,
                                 key |-> k, body |-> v, path |-> None,
                                 err |-> Nil, res |-> None, at |-> 0,
                                 seen |-> Running])
        /\ UNCHANGED <<store, now, ids, ret, written, nops>>

WriteLocked == \E i \in DOMAIN reqs : reqs[i].pc = "streaming"

(* sync.RWMutex: Lock waits for every holder, RLock for the writer. In this
   model a reader takes and releases the read lock in one step, so the only
   holder a state can show is a writer. *)
CanAcquire(x) == ~WriteLocked

(* store.go:142: s.mu.Lock() returns; PutObject goes on to create the
   content file and copy the body into it *)
PutLock ==
    \E i \in DOMAIN reqs :
        /\ reqs[i].op = "PutObject"
        /\ reqs[i].pc = "wait"
        /\ CanAcquire(reqs[i])
        /\ reqs' = [reqs EXCEPT ![i].pc = "streaming"]
        /\ UNCHANGED <<store, now, ids, ret, written, nops>>

(* store.go:143-185: the rest of PutObject and the deferred Unlock *)
PutFinish ==
    \E i \in DOMAIN reqs, io \in {"ok", "copy", "persist"} :
        LET x == reqs[i]
            r == PutObject(store[0], x.bucket, x.key, x.body, ids, now, io)
        IN
        /\ x.op = "PutObject"
        /\ x.pc = "streaming"
        /\ store' = [store EXCEPT ![0] = r.st]
        /\ ids' = ids + 1
        /\ nops' = nops + 1
        /\ reqs' = [reqs EXCEPT ![i] = [x EXCEPT !.pc = "done", !.err = r.err,
                                                  !.path = <<x.bucket, ids>>,
                                                  !.res = r.meta, !.at = nops + 1]]
        /\ ret' = [op |-> "PutObject", bucket |-> x.bucket, key |-> x.key,
                   err |-> r.err]
        /\ UNCHANGED <<now, written>>

StoreRead(st, x, pick) ==
    IF x.op = "GetObjectMeta" THEN GetObjectMeta(st, x.bucket, x.key)
    ELSE IF x.op = "ListObjectsV2" THEN ListObjectsV2(st, x.bucket, <<>>, <<>>, 0)
    ELSE LookupAccessKey(st, PXA, pick)

(* a reader: RLock, the read, RUnlock *)
ReadRun ==
    \E i \in DOMAIN reqs :
        /\ reqs[i].op \in LockReads
        /\ reqs[i].pc = "wait"
        /\ CanAcquire(reqs[i])
        /\ nops' = nops + 1
        /\ reqs' = [reqs EXCEPT ![i].pc = "done",
                                ![i].res = StoreRead(store[0], reqs[i], BK1),
                                ![i].at = nops + 1]
        /\ ret' = [op |-> reqs[i].op]
        /\ UNCHANGED <<store, now, ids, written>>

NextLock ==
    \/ CallStore
    \/ PutLock
    \/ PutFinish
    \/ ReadRun

SpecLock == InitLock /\ [][NextLock]_vars

Streaming(i) == reqs[i].op = "PutObject" /\ reqs[i].pc = "streaming"

(* C31: while a PutObject is streaming its content to disk it does not hold
   the write lock: a Store read or a PutObject on another key that has been
   called at that time is admitted by the mutex. *)
C31_StreamingUnlocked ==
    \A i, j \in DOMAIN reqs :
        (/\ Streaming(i)
         /\ j # i
         /\ reqs[j].pc = "wait"
         /\ reqs[j].op = "PutObject" => reqs[j].key # reqs[i].key)
        => CanAcquire(reqs[j])

(* the PutObject calls on the key of call i that have returned *)
PutsOn(i) ==
    {j \in DOMAIN reqs : /\ reqs[j].op = "PutObject"
                         /\ reqs[j].pc = "done"
                         /\ reqs[j].key = reqs[i].key}

Concurrent(i, j) == i \in reqs[j].seen \/ j \in reqs[i].seen

(* C32: after concurrent PutObject calls on one key have all returned
   success, the key's record is the one of the call that committed last, that
   call's content file exists and the content file of every other call has
   been removed. *)
C32_LastWriterWins ==
    \A i, j \in DOMAIN reqs :
        (/\ i \in PutsOn(i)
         /\ j \in PutsOn(i)
         /\ i # j
         /\ Concurrent(i, j)
         /\ \A m \in PutsOn(i) : reqs[m].err = Nil
         /\ reqs[i].at < reqs[j].at
         /\ \A m \in PutsOn(i) : reqs[m].at <= reqs[j].at)
        => /\ store[0].buckets[BK1].objects[reqs[j].key] = reqs[j].res
           /\ reqs[j].res.size = Len(reqs[j].body)
           /\ reqs[j].res.etag = Sha256Hex(reqs[j].body)
           /\ reqs[j].res.path = reqs[j].path
           /\ reqs[j].path \in DOMAIN store[0].files
           /\ store[0].files[reqs[j].path] = reqs[j].body
           /\ reqs[i].path \notin DOMAIN store[0].files

C32_Witness ==
    /\ Len(reqs) >= 2
    /\ 1 \in PutsOn(2)
    /\ 2 \in PutsOn(2)
    /\ 1 \in reqs[2].seen
    /\ reqs[1].err = Nil
    /\ reqs[2].err = Nil
    /\ reqs[1].body # reqs[2].body
    /\ reqs[2].at < reqs[1].at
    /\ reqs[2].path \notin DOMAIN store[0].files
    /\ store[0].files[reqs[1].path] = reqs[1].body

---------------------------------------------------------------------------
(* SpecPuts: several clients PUT to one key at the same time, every node up
   and reachable, so that every health probe answers and every call of
   Replicate's loop reaches its peer. Each request is served by its own
   goroutine: the handler of the receiving node, ProxyToLeader on a follower,
   the Store call and then Replicate's loop, one peer after the other, on the
   leader. The steps of different requests interleave. *)

InitPuts ==
    /\ store = [n \in Nodes |-> Provisioned]
    /\ now = 0
    /\ ids = 0
    /\ reqs = <<>>
    /\ ret = [op |-> "none"]
    /\ written = NoWritten
    /\ nops = 0

(* the payload of the i-th client: the clients send different payloads *)
PayloadOf(i) == Repeat("y", i)

ClientPut ==
    \E n \in Nodes :
        /\ Len(reqs) < MaxReqs
        /\ reqs' = Append(reqs,
               NewExchange("s3", S3Req("PUT", BK1, KeyK, CredA, FALSE,
                                       PayloadOf(Len(reqs) + 1)), n))
        /\ UNCHANGED <<store, now, ids, ret, written, nops>>

(* ServeHTTP on the node the request is at *)
PutsRecv ==
    \E i \in DOMAIN reqs :
        LET x == reqs[i]
            n == Last(x.hops)
            h == S3ServeHTTP(store[n], x.r, IsLeader(n, Nodes), BK1, ids, now, "ok")
        IN
        /\ x.pc = "recv"
        /\ store' = [store EXCEPT ![n] = h.st]
        /\ ids' = IF h.st.files # store[n].files THEN ids + 1 ELSE ids
        /\ reqs' = [reqs EXCEPT ![i] =
                        IF h.kind = "resp" THEN Answered(x, RespOf(h))
                        ELSE IF h.kind = "proxy" THEN [x EXCEPT !.pc = "proxy"]
                        ELSE [x EXCEPT !.pc = "repl", !.peer = NextPeer(0, n),
                                       !.acks = 1, !.pend = h]]
        /\ UNCHANGED <<now, ret, written, nops>>

(* ProxyToLeader towards the ordinal Leader() returns *)
PutsProxy ==
    \E i \in DOMAIN reqs :
        LET x == reqs[i] IN
        /\ x.pc = "proxy"
        /\ Len(x.hops) < MaxHops
        /\ reqs' = [reqs EXCEPT ![i] =
                        [x EXCEPT !.pc = "recv", !.hops = Append(@, Leader(Nodes)),
                                  !.r = Forwarded(x.surface, x.r)]]
        /\ UNCHANGED <<store, now, ids, ret, written, nops>>

(* one iteration of Replicate's loop of request i *)
PutsReplStep ==
    \E i \in DOMAIN reqs :
        LET x == reqs[i]
            n == Last(x.hops)
            p == x.peer
        IN
        /\ x.pc = "repl"
        /\ p < Replicas
        /\ LET h == ReplicationServeHTTP(store[p], x.pend.repl, BK1, ids, now, "ok")
               sent == NewRequestOK(x.pend.repl.raw)
           IN
           /\ store' = IF sent THEN [store EXCEPT ![p] = h.st] ELSE store
           /\ ids' = IF sent /\ h.st.files # store[p].files THEN ids + 1 ELSE ids
           /\ reqs' = [reqs EXCEPT ![i] =
                           [x EXCEPT !.peer = NextPeer(p + 1, n),
                                     !.acks = IF sent /\ Is2xx(h.status)
                                              THEN @ + 1 ELSE @]]
        /\ UNCHANGED <<now, ret, written, nops>>

PutsReply ==
    \E i \in DOMAIN reqs :
        LET x == reqs[i]
            resp == IF x.acks < Required
                    THEN [NoResp EXCEPT !.status = 503, !.code = "InternalError"]
                    ELSE RespOf(x.pend)
        IN
        /\ x.pc = "repl"
        /\ x.peer >= Replicas
        /\ reqs' = [reqs EXCEPT ![i] = Answered(x, resp)]
        /\ UNCHANGED <<store, now, ids, ret, written, nops>>

NextPuts ==
    \/ ClientPut
    \/ PutsRecv
    \/ PutsProxy
    \/ PutsReplStep
    \/ PutsReply

SpecPuts == InitPuts /\ [][NextPuts]_vars

AllAnswered200 ==
    /\ reqs # <<>>
    /\ \A i \in DOMAIN reqs : reqs[i].pc = "done" /\ reqs[i].resp.status = 200

ETagAt(n) ==
    IF KeyK \in DOMAIN store[n].buckets[BK1].objects
    THEN store[n].buckets[BK1].objects[KeyK].etag
    ELSE None

(* C33: with every node up and the leader unchanged, once concurrent PUTs
   of different payloads to one key have all been answered 200, every node
   holds for the key the ETag the leader holds. *)
C33_ReplicasAgree ==
    AllAnswered200 => \A n \in Nodes : ETagAt(n) = ETagAt(Leader(Nodes))

=============================================================================
